---------------------------- MODULE Spec2Model ----------------------------
(***************************************************************************)
(* Verification model of the project-manager agent's synchronisation       *)
(* pipeline: the two retrying HTTP clients (makeApiCall, makeJiraRequest), *)
(* the Trello and Jira enhancement workflows, the write operations of the  *)
(* Trello and Jira tools (writeTrelloBoard, writeJiraIssues), the read of  *)
(* a Jira project (readJiraProject), the request validation of the Jira    *)
(* tool and the capability probe of createJiraIssues.                      *)
(*                                                                         *)
(* Every remote call is an await point of the source and is one step of    *)
(* the model; the backend's answer to it is chosen nondeterministically.   *)
(* A 2xx answer is taken to carry the JSON body the backend documents,     *)
(* except where the code itself allows for a field to be missing.          *)
(***************************************************************************)
EXTENDS Integers, Sequences, FiniteSets, TLC

VARIABLES
    \* ---- retrying clients (makeApiCall / makeJiraRequest) ----
    fn,          \* the client function that is running
    retries,     \* its retry budget (retries / maxRetries)
    options,     \* options.method of the request it was given
    i,           \* makeApiCall's loop index (0-based)
    attempt,     \* makeJiraRequest's loop counter (1-based)
    lastError,   \* makeJiraRequest's lastError
    events,      \* what the client did so far: fetches and setTimeout sleeps
    outcome,     \* how the call ended
    \* ---- enhancement workflows (trelloWorkflow / jiraWorkflow) ----
    wf,                  \* the workflow that is running
    step,                \* its current step
    pc,                  \* the next remote call of that step
    runStatus,           \* running / success / failed
    failure,             \* the step that threw and why
    inputData,           \* the workflow input (which optional fields are set)
    existingData,        \* existingBoardData / existingProjectData
    readFailed,          \* a read of the optional source failed
    enhancedTasksText,   \* the generator's text
    enhancedTasks,       \* the decoded plan
    calls,               \* the remote calls issued so far
    remoteLeft,          \* remote items left in the loop over fetched data
    li, ci, ki,          \* list/story, card/subtask and checklist-item indices
    labelMap,            \* names of the labels created so far
    probeFailed,         \* the probes of the target project that failed
    projectCapabilities, \* the capabilities createJiraIssues detected
    createdIssues,       \* the ledger of createJiraIssues
    storyKeys,           \* the story keys of createJiraIssues
    storyPayloads,       \* the fields of the story POSTs of createJiraIssues
    boardId,             \* getBoardId's result (0 for null)
    warnings,            \* the warnings of createJiraIssues
    nextKey,             \* the backend's issue counter
    \* ---- write operations of the tools ----
    wj,          \* the frame of writeJiraIssues: its locals and its result
    wt,          \* the frame of writeTrelloBoard: its locals and its result
    cc,          \* one entry point checking its credentials: environment, outcome
    cr,          \* concurrent write runs: the frame of each run, and the backend
    pb,          \* capability probes of one target project and what each returned
    rj,          \* the frame of readJiraProject: its locals and its result
    je           \* one call of jiraTool.execute: its request, its calls, its result

clientVars == <<fn, retries, options, i, attempt, lastError, events, outcome>>

flowVars == <<wf, step, pc, runStatus, failure, inputData, existingData, readFailed,
              enhancedTasksText, enhancedTasks, calls, remoteLeft, li, ci, ki, labelMap,
              probeFailed, projectCapabilities, createdIssues, storyKeys, storyPayloads,
              boardId, warnings, nextKey>>

toolVars == <<wj, wt, cc, cr, pb, rj, je>>

nonClientVars == <<flowVars, toolVars>>

nonFlowVars == <<clientVars, toolVars>>

nonToolVars == <<clientVars, flowVars>>

nonWjVars == <<wt, cc, cr, pb, rj, je, nonToolVars>>

nonWtVars == <<wj, cc, cr, pb, rj, je, nonToolVars>>

nonCcVars == <<wj, wt, cr, pb, rj, je, nonToolVars>>

nonCrVars == <<wj, wt, cc, pb, rj, je, nonToolVars>>

nonPbVars == <<wj, wt, cc, cr, rj, je, nonToolVars>>

nonRjVars == <<wj, wt, cc, cr, pb, je, nonToolVars>>

nonJeVars == <<wj, wt, cc, cr, pb, rj, nonToolVars>>

vars == <<clientVars, flowVars, toolVars>>

-----------------------------------------------------------------------------
(* Bounds of the model *)

MaxRuns == 2

MaxRetries == 3

\* GETs in the loops over the lists and cards of the source board.
MaxSourceCalls == 2

\* Lists found on a board before the run creates its own.
MaxDefaultLists == 1

\* Capability probes of one target project.
MaxProbes == 2

\* The largest number of issues a search of readJiraProject reports.
MaxTotal == 250

\* Search requests of one readJiraProject that are followed; the code has
\* no such limit, and a run that gets this far is a run that goes on.
MaxPages == 4

-----------------------------------------------------------------------------
(* Responses of the backend to one fetch *)

\* status 0 stands for fetch rejecting (network failure or timeout).
NetErr == 0

\* Retry-After header of a 429: NoHeader when absent, else delta-seconds.
NoHeader == 0 - 1

RetryAfterSecs == {0, 2}

Responses ==
    {[status |-> s, retryAfter |-> NoHeader] : s \in {200, 404, 500, NetErr}}
    \cup {[status |-> 429, retryAfter |-> h] : h \in {NoHeader} \cup RetryAfterSecs}

IsOk(r) == r.status >= 200 /\ r.status <= 299

RECURSIVE Pow2(_)
Pow2(n) == IF n = 0 THEN 1 ELSE 2 * Pow2(n - 1)

BaseDelayMs == 1000

FetchEv(r) == [e |-> "fetch", status |-> r.status, retryAfter |-> r.retryAfter, ms |-> 0]
SleepEv(ms) == [e |-> "sleep", status |-> 0, retryAfter |-> NoHeader, ms |-> ms]

Pending == [kind |-> "pending", value |-> "none", status |-> 0]
Returned(v, s) == [kind |-> "return", value |-> v, status |-> s]
Thrown(v, s) == [kind |-> "throw", value |-> v, status |-> s]

-----------------------------------------------------------------------------
(* makeApiCall: trello-tool.ts 36-62 *)

\* The wait of makeApiCall after a 429 or a caught error at loop index idx.
ApiWaitTime(idx, r) == Pow2(idx) * BaseDelayMs

\* Mutant: the catch block rethrows at once.
ApiCatchNoRetry(idx, n, r, err) ==
    [next |-> "throw", sleep |-> <<>>, out |-> Thrown(err, r.status)]

\* The catch block: rethrow on the last attempt, otherwise sleep and loop.
ApiCatch(idx, n, r, err) ==
    IF idx = n - 1
    THEN [next |-> "throw", sleep |-> <<>>, out |-> Thrown(err, r.status)]
    ELSE [next |-> "loop", sleep |-> <<SleepEv(ApiWaitTime(idx, r))>>, out |-> Pending]

\* One iteration of the for loop, given the answer r to its fetch.
ApiIteration(idx, n, r) ==
    IF r.status = NetErr THEN ApiCatch(idx, n, r, "NetworkError")
    ELSE IF r.status = 429
    THEN [next |-> "loop", sleep |-> <<SleepEv(ApiWaitTime(idx, r))>>, out |-> Pending]
    ELSE IF ~IsOk(r) THEN ApiCatch(idx, n, r, "ApiError")
    ELSE [next |-> "return", sleep |-> <<>>, out |-> Returned("json", r.status)]

\* Falling off the end of the for loop: the async function returns undefined.
ApiLoopEnd == Returned("undefined", 0)

StartApiCall ==
    /\ fn = "none"
    /\ \E n \in 1..MaxRetries : retries' = n
    /\ \E m \in {"GET", "POST"} : options' = m
    /\ fn' = "makeApiCall"
    /\ i' = 0
    /\ events' = <<>>
    /\ outcome' = Pending
    /\ UNCHANGED <<attempt, lastError>>
    /\ UNCHANGED nonClientVars

ApiCallAttempt ==
    /\ fn = "makeApiCall"
    /\ outcome.kind = "pending"
    /\ i < retries
    /\ \E r \in Responses :
        LET it == ApiIteration(i, retries, r) IN
        /\ events' = events \o <<FetchEv(r)>> \o it.sleep
        /\ i' = IF it.next = "loop" THEN i + 1 ELSE i
        /\ outcome' = IF it.next = "loop" /\ i + 1 >= retries
                      THEN ApiLoopEnd ELSE it.out
    /\ UNCHANGED <<fn, retries, options, attempt, lastError>>
    /\ UNCHANGED nonClientVars

-----------------------------------------------------------------------------
(* makeJiraRequest: unnamed/part_001 229-260 *)

\* The delay after a 429: the Retry-After header (parseInt * 1000) when the
\* header is a non-empty string, else 2^attempt seconds.
JiraRateLimitDelay(att, r) ==
    IF r.retryAfter # NoHeader THEN r.retryAfter * 1000
    ELSE Pow2(att) * BaseDelayMs

\* Mutant: a fixed delay instead of the exponential one.
JiraBackoffDelayFlat(att) == BaseDelayMs

\* The delay of the catch block.
JiraBackoffDelay(att) == Pow2(att) * BaseDelayMs

JiraIteration(att, n, r) ==
    IF r.status = NetErr
    THEN [next |-> "loop", err |-> "NetworkError",
          sleep |-> IF att < n THEN <<SleepEv(JiraBackoffDelay(att))>> ELSE <<>>,
          out |-> Pending]
    ELSE IF r.status = 429
    THEN [next |-> "loop", err |-> "keep",
          sleep |-> <<SleepEv(JiraRateLimitDelay(att, r))>>, out |-> Pending]
    ELSE [next |-> "return", err |-> "keep", sleep |-> <<>>,
          out |-> Returned("response", r.status)]

\* After the loop: throw lastError || new Error('Request failed after retries')
JiraLoopEnd(le) ==
    IF le # "null" THEN Thrown(le, 0) ELSE Thrown("RequestFailedAfterRetries", 0)

StartJiraRequest ==
    /\ fn = "none"
    /\ \E n \in 1..MaxRetries : retries' = n
    /\ \E m \in {"GET", "POST"} : options' = m
    /\ fn' = "makeJiraRequest"
    /\ attempt' = 1
    /\ lastError' = "null"
    /\ events' = <<>>
    /\ outcome' = Pending
    /\ UNCHANGED i
    /\ UNCHANGED nonClientVars

JiraRequestAttempt ==
    /\ fn = "makeJiraRequest"
    /\ outcome.kind = "pending"
    /\ attempt <= retries
    /\ \E r \in Responses :
        LET it == JiraIteration(attempt, retries, r)
            le == IF it.err = "keep" THEN lastError ELSE it.err IN
        /\ events' = events \o <<FetchEv(r)>> \o it.sleep
        /\ lastError' = le
        /\ attempt' = IF it.next = "loop" THEN attempt + 1 ELSE attempt
        /\ outcome' = IF it.next = "loop" /\ attempt + 1 > retries
                      THEN JiraLoopEnd(le) ELSE it.out
    /\ UNCHANGED <<fn, retries, options, i>>
    /\ UNCHANGED nonClientVars

-----------------------------------------------------------------------------
(* The generator's text and its single normalisation pass                  *)
(* (enhanceTasks: trello-workflow.ts 240-263 and 850-873)                  *)

\* A decoded JSON value, as far as the structural check looks at it.
NoValue == [kind |-> "none", title |-> "absent", groups |-> "absent", plan |-> <<>>]

Value(k, t, g, p) == [kind |-> k, title |-> t, groups |-> g, plan |-> p]

\* A card of the Trello plan: its label names and its number of checklist
\* entries.  A story of the Jira plan: its number of subtasks.
Card(l, c) == [labels |-> l, checklist |-> c]
Story(n) == [subtasks |-> n]

\* A card the generator wrote without one of title/description/priority.
CardWithout(field) == [labels |-> <<>>, checklist |-> 0, missing |-> field]

\* enhancedTasks.lists: lists of cards
TrelloPlans ==
    { <<>>,
      << <<>> >>,
      << <<Card(<<"a">>, 2)>> >>,
      << <<Card(<<"a", "b">>, 1), Card(<<"a">>, 0)>>, <<Card(<<>>, 1)>> >>,
      << <<CardWithout("priority")>> >> }

\* enhancedTasks.stories
JiraPlans ==
    { <<>>,
      <<Story(0)>>,
      <<Story(2)>>,
      <<Story(1), Story(0)>> }

Plans(w) == IF w = "trello" THEN TrelloPlans ELSE JiraPlans

\* The values that fail the structural check, and the smallest that passes.
PlainValues ==
    {Value("null", "absent", "absent", <<>>), Value("number", "absent", "absent", <<>>)}
    \cup {Value("object", t, g, <<>>) : t \in {"absent", "empty", "ok"},
                                         g \in {"absent", "notArray"}}
    \cup {Value("object", t, "array", <<>>) : t \in {"absent", "empty", "ok"}}

PlanValues(w) == {Value("object", "ok", "array", p) : p \in Plans(w)}

\* The text is a sequence of tokens: "fence" is ```, "json" the language tag
\* json, "lang" another language tag, "ws" white space, "prose" any other
\* text, "trunc" a JSON object cut short, "value" a complete JSON value.
Tok(t) == [tok |-> t, val |-> NoValue]
JTok(v) == [tok |-> "value", val |-> v]

Prefixes ==
    { <<>>, <<Tok("ws")>>, <<Tok("fence"), Tok("json"), Tok("ws")>>,
      <<Tok("fence"), Tok("json")>>, <<Tok("fence"), Tok("ws")>>,
      <<Tok("ws"), Tok("fence"), Tok("json"), Tok("ws")>>,
      <<Tok("fence"), Tok("lang"), Tok("ws")>>, <<Tok("prose"), Tok("ws")>> }

Suffixes ==
    { <<>>, <<Tok("ws")>>, <<Tok("ws"), Tok("fence")>>, <<Tok("fence")>>,
      <<Tok("ws"), Tok("fence"), Tok("ws")>>, <<Tok("ws"), Tok("prose")>> }

\* Every wrapper around the plain values; every plan bare, fenced, after
\* prose and cut short.
GenTexts(w) ==
    {a \o b \o c : a \in Prefixes, c \in Suffixes,
                   b \in {<<JTok(v)>> : v \in PlainValues} \cup {<<Tok("trunc")>>, <<>>}}
    \cup {<<JTok(v)>> : v \in PlanValues(w)}
    \cup {<<Tok("fence"), Tok("json"), Tok("ws"), JTok(v), Tok("ws"), Tok("fence")>> :
            v \in PlanValues(w)}
    \cup {<<Tok("prose"), Tok("ws"), JTok(v)>> : v \in PlanValues(w)}
    \cup {<<JTok(v), Tok("trunc")>> : v \in PlanValues(w)}

RECURSIVE DropLeading(_, _)
DropLeading(t, text) ==
    IF text # <<>> /\ Head(text).tok = t THEN DropLeading(t, Tail(text)) ELSE text

RECURSIVE DropTrailing(_, _)
DropTrailing(t, text) ==
    IF text # <<>> /\ text[Len(text)].tok = t
    THEN DropTrailing(t, SubSeq(text, 1, Len(text) - 1)) ELSE text

\* String.prototype.trim
Trim(text) == DropTrailing("ws", DropLeading("ws", text))

StartsWith(text, pre) ==
    Len(text) >= Len(pre) /\ \A k \in 1..Len(pre) : text[k].tok = pre[k]

\* .replace(/\s*```$/, '')
StripClosingFence(text) ==
    IF text # <<>> /\ text[Len(text)].tok = "fence"
    THEN DropTrailing("ws", SubSeq(text, 1, Len(text) - 1)) ELSE text

\* lines 243-253: trim, strip one fenced-code-block wrapper, trim again.
CleanResponse(text) ==
    LET t0 == Trim(text) IN
    Trim(IF StartsWith(t0, <<"fence", "json">>)
         THEN StripClosingFence(DropLeading("ws", SubSeq(t0, 3, Len(t0))))
         ELSE IF StartsWith(t0, <<"fence">>)
         THEN StripClosingFence(DropLeading("ws", SubSeq(t0, 2, Len(t0))))
         ELSE t0)

\* Mutant: a parser that skips whatever surrounds the first JSON value.
JsonParseLenient(text) ==
    IF \E k \in 1..Len(text) : text[k].tok = "value"
    THEN text[CHOOSE k \in 1..Len(text) :
                 text[k].tok = "value" /\ \A j \in 1..(k - 1) : text[j].tok # "value"].val
    ELSE NoValue

\* JSON.parse: the text must be exactly one JSON value (white space around
\* it is allowed); NoValue stands for the SyntaxError.
JsonParse(text) ==
    LET t == Trim(text) IN
    IF Len(t) = 1 /\ t[1].tok = "value" THEN t[1].val ELSE NoValue

\* line 258 / 868: the structural check; reading a property of null throws.
StructureOk(v) ==
    /\ v.kind \notin {"none", "null"}
    /\ v.title = "ok"
    /\ v.groups = "array"

\* The try block of enhanceTasks: the decoded plan, or NoValue when it threw.
ParseEnhancedTasks(text) ==
    LET v == JsonParse(CleanResponse(text)) IN
    IF StructureOk(v) THEN v ELSE NoValue

-----------------------------------------------------------------------------
(* Steps shared by the two workflows *)

Call(s, m, w, ok) == [step |-> s, m |-> m, what |-> w, ok |-> ok]

NoFailure == [step |-> "none", reason |-> "none"]

Fail(s, r) == [step |-> s, reason |-> r]

\* The outcomes of trelloRequest / jiraRequest (no retry): the parsed body, or
\* a throw (non-2xx status or fetch rejecting).
RequestOutcomes == {"ok", "error"}

NoCapabilities ==
    [supportsPriority |-> FALSE, supportsSubtasks |-> FALSE, supportsStoryPoints |-> FALSE]

flowData == <<existingData, readFailed, enhancedTasksText, enhancedTasks>>
flowWrite == <<li, ci, ki, labelMap, probeFailed, projectCapabilities, createdIssues,
               storyKeys, storyPayloads, boardId, warnings, nextKey>>

\* enhanceTasks of either workflow: the generator streams its text (or the
\* stream throws), the text is cleaned, parsed and checked.
EnhanceTasks ==
    /\ wf \in {"trello", "jira"}
    /\ runStatus = "running"
    /\ step = "enhanceTasks"
    /\ \/ \* agent.stream / the text stream throws
          /\ runStatus' = "failed"
          /\ failure' = Fail("enhanceTasks", "generator")
          /\ UNCHANGED <<step, pc, enhancedTasksText, enhancedTasks>>
       \/ \E text \in GenTexts(wf) :
            LET v == ParseEnhancedTasks(text) IN
            /\ enhancedTasksText' = text
            /\ enhancedTasks' = v
            /\ IF v = NoValue
               THEN /\ runStatus' = "failed"
                    /\ failure' = Fail("enhanceTasks", "validation")
                    /\ UNCHANGED <<step, pc>>
               ELSE /\ step' = IF wf = "trello" THEN "createTrelloBoard"
                               ELSE "createJiraIssues"
                    /\ pc' = IF wf = "trello" THEN "member" ELSE "createmeta"
                    /\ UNCHANGED <<runStatus, failure>>
    /\ UNCHANGED <<wf, inputData, existingData, readFailed, calls, remoteLeft>>
    /\ UNCHANGED flowWrite
    /\ UNCHANGED nonFlowVars

-----------------------------------------------------------------------------
(* trelloWorkflow: readExistingBoard -> enhanceTasks -> createTrelloBoard *)

StartTrelloWorkflow ==
    /\ wf = "none"
    /\ wf' = "trello"
    /\ \E src \in BOOLEAN : inputData' = [hasSource |-> src, hasAssignee |-> FALSE]
    /\ step' = "readExistingBoard"
    /\ pc' = "organizations"
    /\ UNCHANGED <<runStatus, failure, calls, remoteLeft>>
    /\ UNCHANGED flowData
    /\ UNCHANGED flowWrite
    /\ UNCHANGED nonFlowVars

\* Mutant: the catch block rethrows.
ReadExistingRethrow(s) == [runStatus |-> "failed", failure |-> Fail(s, "read")]

\* The catch block of readExistingBoard (186-189) / readExistingProject
\* (789-792): warn, empty summary, go on.
ReadExistingCatch(s) == [runStatus |-> "running", failure |-> NoFailure]

\* The answers to a GET of the read step: the data, a list that lacks the
\* workspace or board, a thrown request, or data of an unexpected shape.
ReadAnswers(p) ==
    {"ok", "error", "malformed"}
    \cup (IF p \in {"organizations", "boards"} THEN {"notFound"} ELSE {})

ReadNextPc(p) ==
    CASE p = "organizations" -> "boards"
      [] p = "boards" -> "lists"
      [] p = "lists" -> "labels"
      [] OTHER -> "items"

\* readExistingBoard without sourceWorkspace/sourceBoard: nothing is read.
ReadExistingBoardNoSource ==
    /\ wf = "trello" /\ runStatus = "running"
    /\ step = "readExistingBoard"
    /\ ~inputData.hasSource
    /\ step' = "enhanceTasks"
    /\ pc' = "generate"
    /\ existingData' = "empty"
    /\ UNCHANGED <<wf, runStatus, failure, inputData, readFailed, enhancedTasksText,
                   enhancedTasks, calls, remoteLeft>>
    /\ UNCHANGED flowWrite
    /\ UNCHANGED nonFlowVars

\* One GET of readExistingBoard: organizations, boards, lists, labels, then
\* the cards of each list and the checklists of each card.
ReadExistingBoardCall ==
    /\ wf = "trello" /\ runStatus = "running"
    /\ step = "readExistingBoard"
    /\ inputData.hasSource
    /\ \E a \in ReadAnswers(pc) :
        /\ calls' = Append(calls, Call(step, "GET", pc, a # "error"))
        /\ IF a # "ok"
           THEN LET c == ReadExistingCatch(step) IN
                /\ readFailed' = TRUE
                /\ existingData' = "empty"
                /\ runStatus' = c.runStatus
                /\ failure' = c.failure
                /\ step' = IF c.runStatus = "running" THEN "enhanceTasks" ELSE step
                /\ pc' = "generate"
                /\ UNCHANGED remoteLeft
           ELSE /\ UNCHANGED <<readFailed, runStatus, failure>>
                /\ \E n \in 0..MaxSourceCalls :
                     LET left == IF pc = "labels" THEN n
                                 ELSE IF pc = "items" THEN remoteLeft - 1 ELSE remoteLeft
                         more == IF pc \in {"labels", "items"} THEN left > 0 ELSE TRUE IN
                     /\ remoteLeft' = left
                     /\ step' = IF more THEN step ELSE "enhanceTasks"
                     /\ pc' = IF more THEN ReadNextPc(pc) ELSE "generate"
                     /\ existingData' = IF more THEN existingData ELSE "summary"
    /\ UNCHANGED <<wf, inputData, enhancedTasksText, enhancedTasks>>
    /\ UNCHANGED flowWrite
    /\ UNCHANGED nonFlowVars

-----------------------------------------------------------------------------
(* createTrelloBoard: trello-workflow.ts 284-385.  No call is guarded by a *)
(* try block: a request that throws ends the step and the run.             *)

Pos(p, l, c, k, n) == [pc |-> p, li |-> l, ci |-> c, ki |-> k, left |-> n]

RECURSIVE Flatten(_)
Flatten(ss) == IF ss = <<>> THEN <<>> ELSE Head(ss) \o Flatten(Tail(ss))

RECURSIVE Dedupe(_)
Dedupe(q) ==
    IF q = <<>> THEN <<>>
    ELSE LET r == Dedupe(SubSeq(q, 1, Len(q) - 1)) IN
         IF \E k \in 1..Len(r) : r[k] = q[Len(q)] THEN r ELSE Append(r, q[Len(q)])

\* line 328: [...new Set(lists.flatMap(list => list.cards.flatMap(card => card.labels)))]
UniqueLabels(plan) ==
    Dedupe(Flatten([k \in 1..Len(Flatten(plan)) |-> Flatten(plan)[k].labels]))

\* Positions of the nested loops 343-377, after a successful call.
AfterList(plan, l) ==
    IF l < Len(plan) THEN Pos("list", l + 1, 0, 0, 0) ELSE Pos("done", l, 0, 0, 0)

AfterCard(plan, l, c) ==
    IF c < Len(plan[l]) THEN Pos("card", l, c + 1, 0, 0) ELSE AfterList(plan, l)

\* Mutant: the lists of the board are archived again after a list creation.
AfterCreateListArchive(plan, l) == Pos("archive", l, 0, 0, 1)

AfterCreateList(plan, l) ==
    IF Len(plan[l]) > 0 THEN Pos("card", l, 1, 0, 0) ELSE AfterList(plan, l)

AfterCreateCard(plan, l, c) ==
    IF plan[l][c].checklist > 0 THEN Pos("checklist", l, c, 0, 0) ELSE AfterCard(plan, l, c)

AfterCheckItem(plan, l, c, k) ==
    IF k < plan[l][c].checklist THEN Pos("checkItem", l, c, k + 1, 0)
    ELSE AfterCard(plan, l, c)

ListsStart(plan) ==
    IF Len(plan) > 0 THEN Pos("list", 1, 0, 0, 0) ELSE Pos("done", 0, 0, 0, 0)

LabelsStart(plan) ==
    IF Len(UniqueLabels(plan)) > 0 THEN Pos("label", 0, 0, 0, 0) ELSE ListsStart(plan)

AfterLabel(plan, created) ==
    IF created < Len(UniqueLabels(plan)) THEN Pos("label", 0, 0, 0, 0) ELSE ListsStart(plan)

AfterArchive(plan, left) ==
    IF left > 1 THEN Pos("archive", 0, 0, 0, left - 1) ELSE LabelsStart(plan)

\* One awaited trelloRequest of createTrelloBoard at position p: it throws
\* (the step fails) or the step moves to position nxt with label map lm.
CreateTrelloBoardCall(p, m, ok, nxt, lm) ==
    /\ calls' = Append(calls, Call("createTrelloBoard", m, p, ok))
    /\ IF ~ok
       THEN /\ runStatus' = "failed"
            /\ failure' = Fail("createTrelloBoard", p)
            /\ UNCHANGED <<step, pc, li, ci, ki, remoteLeft, labelMap>>
       ELSE /\ runStatus' = IF nxt.pc = "done" THEN "success" ELSE runStatus
            /\ step' = IF nxt.pc = "done" THEN "end" ELSE step
            /\ pc' = nxt.pc
            /\ li' = nxt.li
            /\ ci' = nxt.ci
            /\ ki' = nxt.ki
            /\ remoteLeft' = nxt.left
            /\ labelMap' = lm
            /\ UNCHANGED failure
    /\ UNCHANGED <<wf, inputData>>
    /\ UNCHANGED flowData
    /\ UNCHANGED <<probeFailed, projectCapabilities, createdIssues, storyKeys,
                   storyPayloads, boardId, warnings, nextKey>>
    /\ UNCHANGED nonFlowVars

AtCreateTrelloBoard(p) ==
    /\ wf = "trello" /\ runStatus = "running"
    /\ step = "createTrelloBoard"
    /\ pc = p

ThePlan == enhancedTasks.plan

\* 292: GET /members/me
CTB_GetMember ==
    /\ AtCreateTrelloBoard("member")
    /\ \E a \in RequestOutcomes :
        CreateTrelloBoardCall(pc, "GET", a = "ok", Pos("organizations", 0, 0, 0, 0), labelMap)

\* 297-304: GET /members/me/organizations; the workspace exists or not
CTB_GetOrganizations ==
    /\ AtCreateTrelloBoard("organizations")
    /\ \E a \in RequestOutcomes, found \in BOOLEAN :
        CreateTrelloBoardCall(pc, "GET", a = "ok",
            Pos(IF found THEN "board" ELSE "workspace", 0, 0, 0, 0), labelMap)

\* 305-309: POST /organizations
CTB_CreateWorkspace ==
    /\ AtCreateTrelloBoard("workspace")
    /\ \E a \in RequestOutcomes :
        CreateTrelloBoardCall(pc, "POST", a = "ok", Pos("board", 0, 0, 0, 0), labelMap)

\* 313-317: POST /boards
CTB_CreateBoard ==
    /\ AtCreateTrelloBoard("board")
    /\ \E a \in RequestOutcomes :
        CreateTrelloBoardCall(pc, "POST", a = "ok", Pos("defaultLists", 0, 0, 0, 0), labelMap)

\* 320: GET /boards/{id}/lists
CTB_GetDefaultLists ==
    /\ AtCreateTrelloBoard("defaultLists")
    /\ \E a \in RequestOutcomes, d \in 0..MaxDefaultLists :
        CreateTrelloBoardCall(pc, "GET", a = "ok",
            IF d > 0 THEN Pos("archive", 0, 0, 0, d) ELSE LabelsStart(ThePlan), labelMap)

\* 321-323: PUT /lists/{id}/closed for each list found
CTB_ArchiveList ==
    /\ AtCreateTrelloBoard("archive")
    /\ \E a \in RequestOutcomes :
        CreateTrelloBoardCall(pc, "PUT", a = "ok", AfterArchive(ThePlan, remoteLeft), labelMap)

\* 332-339: POST /labels for each unique label
CTB_CreateLabel ==
    /\ AtCreateTrelloBoard("label")
    /\ \E a \in RequestOutcomes :
        CreateTrelloBoardCall(pc, "POST", a = "ok", AfterLabel(ThePlan, Len(labelMap) + 1),
            Append(labelMap, UniqueLabels(ThePlan)[Len(labelMap) + 1]))

\* 344-347: POST /lists
CTB_CreateList ==
    /\ AtCreateTrelloBoard("list")
    /\ \E a \in RequestOutcomes :
        CreateTrelloBoardCall(pc, "POST", a = "ok", AfterCreateList(ThePlan, li), labelMap)

\* 353-360: POST /cards
CTB_CreateCard ==
    /\ AtCreateTrelloBoard("card")
    /\ \E a \in RequestOutcomes :
        CreateTrelloBoardCall(pc, "POST", a = "ok", AfterCreateCard(ThePlan, li, ci), labelMap)

\* 364-366: POST /cards/{id}/checklists
CTB_CreateChecklist ==
    /\ AtCreateTrelloBoard("checklist")
    /\ \E a \in RequestOutcomes :
        CreateTrelloBoardCall(pc, "POST", a = "ok", Pos("checkItem", li, ci, 1, 0), labelMap)

\* 368-372: POST /checklists/{id}/checkItems
CTB_CreateCheckItem ==
    /\ AtCreateTrelloBoard("checkItem")
    /\ \E a \in RequestOutcomes :
        CreateTrelloBoardCall(pc, "POST", a = "ok", AfterCheckItem(ThePlan, li, ci, ki), labelMap)

TrelloWorkflowNext ==
    \/ StartTrelloWorkflow
    \/ ReadExistingBoardNoSource
    \/ ReadExistingBoardCall
    \/ CTB_GetMember
    \/ CTB_GetOrganizations
    \/ CTB_CreateWorkspace
    \/ CTB_CreateBoard
    \/ CTB_GetDefaultLists
    \/ CTB_ArchiveList
    \/ CTB_CreateLabel
    \/ CTB_CreateList
    \/ CTB_CreateCard
    \/ CTB_CreateChecklist
    \/ CTB_CreateCheckItem

-----------------------------------------------------------------------------
(* jiraWorkflow: validateProject -> readExistingProject -> enhanceTasks    *)
(*               -> createJiraIssues                                       *)

JCur ==
    [step |-> step, pc |-> pc, runStatus |-> runStatus, failure |-> failure,
     existingData |-> existingData, readFailed |-> readFailed,
     li |-> li, ci |-> ci, probeFailed |-> probeFailed,
     caps |-> projectCapabilities, createdIssues |-> createdIssues,
     storyKeys |-> storyKeys, storyPayloads |-> storyPayloads, boardId |-> boardId,
     warnings |-> warnings, nextKey |-> nextKey]

\* One awaited jiraRequest of the Jira workflow and the state it leaves.
JiraWorkflowCall(s, m, w, ok, r) ==
    /\ calls' = Append(calls, Call(s, m, w, ok))
    /\ step' = r.step
    /\ pc' = r.pc
    /\ runStatus' = r.runStatus
    /\ failure' = r.failure
    /\ existingData' = r.existingData
    /\ readFailed' = r.readFailed
    /\ li' = r.li
    /\ ci' = r.ci
    /\ probeFailed' = r.probeFailed
    /\ projectCapabilities' = r.caps
    /\ createdIssues' = r.createdIssues
    /\ storyKeys' = r.storyKeys
    /\ storyPayloads' = r.storyPayloads
    /\ boardId' = r.boardId
    /\ warnings' = r.warnings
    /\ nextKey' = r.nextKey
    /\ UNCHANGED <<wf, inputData, enhancedTasksText, enhancedTasks, remoteLeft, ki, labelMap>>
    /\ UNCHANGED nonFlowVars

AtJira(s, p) ==
    /\ wf = "jira" /\ runStatus = "running"
    /\ step = s
    /\ pc = p

StartJiraWorkflow ==
    /\ wf = "none"
    /\ wf' = "jira"
    /\ \E src \in BOOLEAN, asg \in BOOLEAN :
         inputData' = [hasSource |-> src, hasAssignee |-> asg]
    /\ step' = "validateProject"
    /\ pc' = "project"
    /\ UNCHANGED <<runStatus, failure, calls, remoteLeft>>
    /\ UNCHANGED flowData
    /\ UNCHANGED flowWrite
    /\ UNCHANGED nonFlowVars

\* The answers to GET /rest/api/3/project/{key}: a throw, or the project
\* with its style.
ProjectAnswers == {"error", "classic", "next-gen"}

\* The answers to GET createmeta as validateTeamManagedProject reads them.
ValidateMetaAnswers == {"error", "malformed", "noProjects", "noEpic", "hasEpic"}

\* validateTeamManagedProject 547-594 and 636-655: the project lookup.
\* "invalid" is isValid: false, "meta" goes on to the createmeta check.
ValidateLookup(a) ==
    IF a = "error" THEN "invalid"
    ELSE IF a # "next-gen" THEN "invalid"
    ELSE "meta"

\* Mutant: the inner catch of the createmeta check fails the validation.
ValidateMetaStrict(a) == IF a = "hasEpic" THEN "valid" ELSE "invalid"

\* validateTeamManagedProject 597-634: the Epic issue type check; its catch
\* does not fail the validation.
ValidateMeta(a) ==
    IF a \in {"error", "malformed"} THEN "valid"
    ELSE IF a = "hasEpic" THEN "valid"
    ELSE "invalid"

\* validateProject 689-709, first request: the target project lookup.
VP_GetProject ==
    /\ AtJira("validateProject", "project")
    /\ \E a \in ProjectAnswers :
        LET v == ValidateLookup(a) IN
        JiraWorkflowCall(step, "GET", "project", a # "error",
            IF v = "invalid"
            THEN [JCur EXCEPT !.runStatus = "failed",
                              !.failure = Fail(step, IF a = "error" THEN "projectLookup"
                                                     ELSE "notTeamManaged"),
                              !.probeFailed = IF a = "error" THEN @ \cup {"projectLookup"} ELSE @]
            ELSE [JCur EXCEPT !.pc = "createmeta"])

\* validateProject, second request: the createmeta check of the target.
VP_GetCreateMeta ==
    /\ AtJira("validateProject", "createmeta")
    /\ \E a \in ValidateMetaAnswers :
        LET v == ValidateMeta(a) IN
        JiraWorkflowCall(step, "GET", "createmeta", a # "error",
            IF v = "invalid"
            THEN [JCur EXCEPT !.runStatus = "failed",
                              !.failure = Fail(step, "noEpicType"),
                              !.probeFailed = IF a \in {"error", "malformed"}
                                              THEN @ \cup {"validateMeta"} ELSE @]
            ELSE [JCur EXCEPT !.step = "readExistingProject", !.pc = "srcProject",
                              !.probeFailed = IF a \in {"error", "malformed"}
                                              THEN @ \cup {"validateMeta"} ELSE @])

\* Mutant: the step after the read is the write step.
ToWriteStep(r, data) ==
    [r EXCEPT !.step = "createJiraIssues", !.pc = "board", !.existingData = data]

ToEnhance(r, data) ==
    [r EXCEPT !.step = "enhanceTasks", !.pc = "generate", !.existingData = data]

\* 732, 795-799: without sourceProjectKey nothing is read.
REP_NoSource ==
    /\ AtJira("readExistingProject", "srcProject")
    /\ ~inputData.hasSource
    /\ step' = "enhanceTasks"
    /\ pc' = "generate"
    /\ existingData' = "empty"
    /\ UNCHANGED <<wf, runStatus, failure, inputData, readFailed, enhancedTasksText,
                   enhancedTasks, calls, remoteLeft>>
    /\ UNCHANGED flowWrite
    /\ UNCHANGED nonFlowVars

\* 735-744: the source project lookup; an invalid source returns the empty
\* summary.
REP_GetSourceProject ==
    /\ AtJira("readExistingProject", "srcProject")
    /\ inputData.hasSource
    /\ \E a \in ProjectAnswers :
        JiraWorkflowCall(step, "GET", "srcProject", a # "error",
            IF ValidateLookup(a) = "invalid"
            THEN [ToEnhance(JCur, "empty") EXCEPT !.readFailed = (a = "error")]
            ELSE [JCur EXCEPT !.pc = "srcCreatemeta"])

REP_GetSourceCreateMeta ==
    /\ AtJira("readExistingProject", "srcCreatemeta")
    /\ \E a \in ValidateMetaAnswers :
        JiraWorkflowCall(step, "GET", "srcCreatemeta", a # "error",
            IF ValidateMeta(a) = "invalid"
            THEN ToEnhance(JCur, "empty")
            ELSE [JCur EXCEPT !.pc = "search"])

\* 747-792: the issue search and the summary built from it.
REP_Search ==
    /\ AtJira("readExistingProject", "search")
    /\ \E a \in {"ok", "error", "malformed"} :
        JiraWorkflowCall(step, "GET", "search", a # "error",
            IF a = "ok" THEN ToEnhance(JCur, "summary")
            ELSE LET c == ReadExistingCatch(step) IN
                 IF c.runStatus = "running"
                 THEN [ToEnhance(JCur, "empty") EXCEPT !.readFailed = TRUE]
                 ELSE [JCur EXCEPT !.readFailed = TRUE, !.runStatus = c.runStatus,
                                   !.failure = c.failure])

-----------------------------------------------------------------------------
(* createJiraIssues: trello-workflow.ts 901-1177 *)

Caps(p, st, sp) ==
    [supportsPriority |-> p, supportsSubtasks |-> st, supportsStoryPoints |-> sp]

\* The answers to GET createmeta as createJiraIssues reads them: a throw,
\* a body of an unexpected shape, no project, or what the issue types offer.
CapabilityAnswers ==
    {[a |-> x, caps |-> NoCapabilities] : x \in {"error", "malformed", "noProjects"}}
    \cup {[a |-> "ok", caps |-> Caps(p, st, sp)] : p \in BOOLEAN, st \in BOOLEAN, sp \in BOOLEAN}

\* Mutant: a failed capability probe is rethrown.
ProbeCatchRethrow(r, name) ==
    [r EXCEPT !.runStatus = "failed", !.failure = Fail("createJiraIssues", name),
              !.probeFailed = @ \cup {name}]

\* The catch blocks of the probes (953-955, getBoardId 674-677): warn and go
\* on with what is known.
ProbeCatch(r, name) == [r EXCEPT !.probeFailed = @ \cup {name}]

\* 1138-1147: the warnings for what the project does not support.
CapabilityWarnings(c) ==
    (IF ~c.supportsPriority THEN <<"priority">> ELSE <<>>)
    \o (IF ~c.supportsSubtasks THEN <<"subtasks">> ELSE <<>>)
    \o (IF ~c.supportsStoryPoints THEN <<"storyPoints">> ELSE <<>>)

\* 1138-1176: the step returns its result.
JiraFinish(r) ==
    [r EXCEPT !.warnings = @ \o CapabilityWarnings(r.caps),
              !.runStatus = "success", !.step = "end", !.pc = "done"]

JiraFailed(r, where) ==
    [r EXCEPT !.runStatus = "failed", !.failure = Fail("createJiraIssues", where)]

AfterStory(r, plan, l) ==
    IF l < Len(plan) THEN [r EXCEPT !.pc = "story", !.li = l + 1, !.ci = 0]
    ELSE [r EXCEPT !.pc = "board"]

AfterCreateStory(r, plan, l) ==
    IF r.caps.supportsSubtasks /\ plan[l].subtasks > 0
    THEN [r EXCEPT !.pc = "subtask", !.ci = 1]
    ELSE AfterStory(r, plan, l)

AfterSubtask(r, plan, l, c) ==
    IF c < plan[l].subtasks THEN [r EXCEPT !.ci = c + 1] ELSE AfterStory(r, plan, l)

StoriesStart(r, plan) ==
    IF Len(plan) > 0 THEN [r EXCEPT !.pc = "story", !.li = 1, !.ci = 0]
    ELSE [r EXCEPT !.pc = "board"]

\* 918-955: the capability probe.
CJI_GetCreateMeta ==
    /\ AtJira("createJiraIssues", "createmeta")
    /\ \E ans \in CapabilityAnswers :
        LET r0 == [JCur EXCEPT !.caps = ans.caps,
                               !.pc = IF inputData.hasAssignee THEN "assignee" ELSE "epic"] IN
        JiraWorkflowCall(step, "GET", "createmeta", ans.a # "error",
            IF ans.a \in {"error", "malformed"} THEN ProbeCatch(r0, "capsMeta") ELSE r0)

\* 957-966: getAssigneeAccountId (658-666) catches its own failure.
CJI_GetAssignee ==
    /\ AtJira("createJiraIssues", "assignee")
    /\ \E a \in RequestOutcomes :
        JiraWorkflowCall(step, "GET", "assignee", a = "ok", [JCur EXCEPT !.pc = "epic"])

\* 988-990: POST the epic.
CJI_CreateEpic ==
    /\ AtJira("createJiraIssues", "epic")
    /\ \E a \in RequestOutcomes :
        JiraWorkflowCall(step, "POST", "epic", a = "ok",
            IF a = "error" THEN JiraFailed(JCur, "epic")
            ELSE StoriesStart([JCur EXCEPT !.createdIssues = <<nextKey>>,
                                           !.nextKey = @ + 1], ThePlan))

\* Mutant: the priority is written whatever the project supports.
StoryFieldsWithPriority(caps, story) ==
    [priority |-> TRUE, storyPoints |-> caps.supportsStoryPoints,
     subtasksInDescription |-> 0]

\* 1000-1043: storyFields.  The description holds the story's description
\* and acceptance criteria; priority and story points are set only when the
\* project supports them.
StoryFields(caps, story) ==
    [priority |-> caps.supportsPriority, storyPoints |-> caps.supportsStoryPoints,
     subtasksInDescription |-> 0]

\* 1045-1049: POST a story.
CJI_CreateStory ==
    /\ AtJira("createJiraIssues", "story")
    /\ \E a \in RequestOutcomes :
        LET cur == [JCur EXCEPT !.storyPayloads =
                                   Append(@, StoryFields(projectCapabilities, ThePlan[li]))] IN
        JiraWorkflowCall(step, "POST", "story", a = "ok",
            IF a = "error" THEN JiraFailed(cur, "story")
            ELSE AfterCreateStory([cur  EXCEPT !.createdIssues = Append(@, nextKey),
                                               !.storyKeys = Append(@, nextKey),
                                               !.nextKey = @ + 1], ThePlan, li))

\* 1084-1086: POST a subtask.
CJI_CreateSubtask ==
    /\ AtJira("createJiraIssues", "subtask")
    /\ \E a \in RequestOutcomes :
        JiraWorkflowCall(step, "POST", "subtask", a = "ok",
            IF a = "error" THEN JiraFailed(JCur, "subtask")
            ELSE AfterSubtask([JCur EXCEPT !.createdIssues = Append(@, nextKey),
                                           !.nextKey = @ + 1], ThePlan, li, ci))

\* 1093-1097, 1133-1136: getBoardId (669-678), the board lookup.
CJI_GetBoard ==
    /\ AtJira("createJiraIssues", "board")
    /\ \E a \in {"error", "malformed", "noBoard", "found"} :
        JiraWorkflowCall(step, "GET", "board", a # "error",
            IF a = "found" THEN [JCur EXCEPT !.boardId = 1, !.pc = "sprint"]
            ELSE LET r0 == [JCur EXCEPT !.warnings = Append(@, "noBoard")]
                     r1 == IF a = "noBoard" THEN r0 ELSE ProbeCatch(r0, "boardLookup") IN
                 IF r1.runStatus = "failed" THEN r1 ELSE JiraFinish(r1))

\* 1098-1113, 1129-1132: POST the sprint; sprintId may be missing.
CJI_CreateSprint ==
    /\ AtJira("createJiraIssues", "sprint")
    /\ \E a \in {"error", "noId", "ok"} :
        JiraWorkflowCall(step, "POST", "sprint", a # "error",
            IF a = "error" THEN JiraFinish([JCur EXCEPT !.warnings = Append(@, "sprintFailed")])
            ELSE IF a = "noId" THEN JiraFinish(JCur)
            ELSE [JCur EXCEPT !.pc = "addToSprint"])

\* 1116-1127: POST the stories into the sprint.
CJI_AddToSprint ==
    /\ AtJira("createJiraIssues", "addToSprint")
    /\ \E a \in RequestOutcomes :
        JiraWorkflowCall(step, "POST", "addToSprint", a = "ok",
            IF a = "error" THEN JiraFinish([JCur EXCEPT !.warnings = Append(@, "sprintFailed")])
            ELSE JiraFinish(JCur))

-----------------------------------------------------------------------------
(* writeJiraIssues and its helpers: part_001 417-879.  Every remote call   *)
(* goes through makeJiraRequest, which returns the last response (ok or    *)
(* rejected) or throws once its retries are used up.                       *)

JiraRequestOutcomes == {"ok", "rejected", "throw"}

NoResult == [done |-> FALSE, success |-> FALSE, error |-> "", warnings |-> <<>>]

Result(ok, err, w) == [done |-> TRUE, success |-> ok, error |-> err, warnings |-> w]

\* An absent optional field of a task is the empty string.
Task(ty, ti, ep, sp, bl, as) ==
    [type |-> ty, title |-> ti, epic |-> ep, sprint |-> sp, blocks |-> bl,
     assignee |-> as]

ProjectDatas ==
    { <<>>,
      <<Task("Epic", "E", "", "", "", "")>>,
      <<Task("Epic", "E", "", "", "", "ann"),
        Task("Story", "S1", "E", "Sp", "S2", ""),
        Task("Story", "S2", "PROJ-9", "Sp", "", "")>>,
      <<Task("Story", "S1", "OTH-1", "Sp", "PROJ-9", "")>>,
      <<Task("Story", "S1", "", "", "S0", ""),
        Task("Story", "S2", "", "", "", "")>>,
      <<Task("Epic", "E", "", "Sp", "", ""),
        Task("Task", "T1", "E", "Sp2", "", "")>> }

\* lines 568 and 630: ref.includes('-') && ref.startsWith(projectKey)
LooksLikeKey(ref) == ref \in {"PROJ-9"}

\* The key the backend gives to the n-th issue it creates.
IssueKeys == <<"PROJ-1", "PROJ-2", "PROJ-3">>

\* issueKeyMap: a Map from task title to issue key.
MapGet(m, title) ==
    IF \E e \in m : e.title = title
    THEN (CHOOSE e \in m : e.title = title).key
    ELSE ""

MapSet(m, title, key) ==
    {e \in m : e.title # title} \cup {[title |-> title, key |-> key]}

EpicTasks(tasks) == SelectSeq(tasks, LAMBDA t : t.type = "Epic")

NonEpicTasks(tasks) == SelectSeq(tasks, LAMBDA t : t.type # "Epic")

BlockingTasks(tasks) == SelectSeq(tasks, LAMBDA t : t.blocks # "")

\* Mutant: the sprint names are taken task by task, without the Set.
UniqueSprintsPerTask(tasks) ==
    SelectSeq([k \in 1..Len(tasks) |-> tasks[k].sprint], LAMBDA n : n # "")

\* line 543: [...new Set(tasks.map(t => t.sprint).filter(Boolean))]
UniqueSprints(tasks) ==
    Dedupe(SelectSeq([k \in 1..Len(tasks) |-> tasks[k].sprint], LAMBDA n : n # ""))

Warn(w, a) == [what |-> w, about |-> a]

WJIdle ==
    [pc |-> "idle", sub |-> "", k |-> 0, tasks |-> <<>>,
     projectFetched |-> FALSE, isTeamManaged |-> FALSE, board |-> FALSE,
     epicLinkField |-> FALSE, issueKeyMap |-> {}, createdIssues |-> <<>>,
     failedIssues |-> <<>>, warnings |-> <<>>, sprintMap |-> {}, epicKey |-> "",
     linkCalls |-> {}, issuePosts |-> <<>>, sprintPosts |-> <<>>, sprintAdds |-> {},
     failures |-> {}, result |-> NoResult]

\* Mutant: the final check of the ledger is dropped.
WriteJiraResultAlwaysOk(created, w) == Result(TRUE, "", w)

\* lines 656-672
WriteJiraResult(created, w) ==
    IF Len(created) = 0 THEN Result(FALSE, "No issues created", <<>>)
    ELSE Result(TRUE, "", w)

\* lines 673-679
WJOuterCatch(f, msg) == [f EXCEPT !.pc = "done", !.sub = "", !.result = Result(FALSE, msg, <<>>)]

\* Mutant: the reference is used as the key whether or not it resolves.
ResolveRefAsGiven(f, ref) == ref

\* lines 564-576
ResolveRef(f, ref) ==
    IF ref = "" THEN ""
    ELSE IF MapGet(f.issueKeyMap, ref) # "" THEN MapGet(f.issueKeyMap, ref)
    ELSE IF LooksLikeKey(ref) THEN ref
    ELSE ""

\* Mutant: an unresolved blocked issue is passed over in silence.
LinkWarningsOutwardOnly(t, outward, inward) ==
    IF outward = "" THEN <<Warn("noOutwardKey", t.title)>> ELSE <<>>

\* lines 643-650: the warnings for a link whose ends were not both resolved.
LinkWarnings(t, outward, inward) ==
    (IF outward = "" THEN <<Warn("noOutwardKey", t.title)>> ELSE <<>>)
    \o (IF inward = "" THEN <<Warn("noInwardKey", t.blocks)>> ELSE <<>>)

\* Mutant: one resolved end is enough for a link call.
OneResolved(outward, inward) == outward # "" \/ inward # ""

\* line 635: if (outwardIssueKey && inwardIssueKey)
BothResolved(outward, inward) == outward # "" /\ inward # ""

CreateIssueStart(t) == IF t.assignee # "" THEN "assignee" ELSE "post"

\* Runs the code from the head of the loop iteration f.k of phase f.pc up
\* to the next remote call: skips finished loops, makes the checks that
\* need no call, and returns the result when the last loop is over.
RECURSIVE WJSettle(_)
WJSettle(f) ==
    CASE f.pc = "epics" ->
           IF f.k > Len(EpicTasks(f.tasks))
           THEN WJSettle([f EXCEPT !.pc = "sprints", !.k = 1])
           ELSE [f EXCEPT !.sub = CreateIssueStart(EpicTasks(f.tasks)[f.k])]
      [] f.pc = "sprints" ->
           IF ~f.board \/ f.k > Len(UniqueSprints(f.tasks))
           THEN WJSettle([f EXCEPT !.pc = "issues", !.k = 1])
           ELSE [f EXCEPT !.sub = "post"]
      [] f.pc = "issues" ->
           IF f.k > Len(NonEpicTasks(f.tasks))
           THEN WJSettle([f EXCEPT !.pc = "links", !.k = 1])
           ELSE LET t == NonEpicTasks(f.tasks)[f.k]
                    key == ResolveRef(f, t.epic)
                IN  [f EXCEPT !.epicKey = key,
                              !.sub = CreateIssueStart(t),
                              !.warnings = IF t.epic # "" /\ key = ""
                                           THEN Append(@, Warn("epicNotFound", t.title))
                                           ELSE @]
      [] f.pc = "links" ->
           IF f.k > Len(BlockingTasks(f.tasks))
           THEN [f EXCEPT !.pc = "done", !.sub = "",
                          !.result = WriteJiraResult(f.createdIssues, f.warnings)]
           ELSE LET t == BlockingTasks(f.tasks)[f.k]
                    outward == MapGet(f.issueKeyMap, t.title)
                    inward == ResolveRef(f, t.blocks)
                IN  IF BothResolved(outward, inward)
                    THEN [f EXCEPT !.sub = "linkTypes",
                                   !.linkCalls = @ \cup {t.title}]
                    ELSE WJSettle([f EXCEPT !.k = @ + 1,
                                            !.warnings = @ \o LinkWarnings(t, outward, inward)])
      [] OTHER -> f

WJNextIteration(f) == WJSettle([f EXCEPT !.k = @ + 1])

\* Mutant: a failed creation leaves no warning.
WJFailedSilent(f, what, about) == [f EXCEPT !.failures = @ \cup {Warn(what, about)}]

\* A creation that failed: the warning pushed for it (and the record of the
\* failure itself, kept for the properties).
WJFailed(f, what, about) ==
    [f EXCEPT !.warnings = Append(@, Warn(what, about)),
              !.failures = @ \cup {Warn(what, about)}]

\* Mutant: a task whose creation failed is not put on failedIssues.
PushFailedDropped(f, title) == f

\* lines 531, 535, 615 and 619: failedIssues.push(task.title)
PushFailed(f, title) == [f EXCEPT !.failedIssues = Append(@, title)]

WJ_Start ==
    /\ wj.pc = "idle"
    /\ \E d \in ProjectDatas : wj' = [WJIdle EXCEPT !.pc = "project", !.tasks = d]
    /\ UNCHANGED nonWjVars

\* lines 429-455
WJ_GetProject ==
    /\ wj.pc = "project"
    /\ \E a \in {"next-gen", "classic", "404", "403", "rejected", "throw"} :
          wj' = CASE a = "404" ->
                       [wj EXCEPT !.pc = "done",
                                  !.result = Result(FALSE, "Project not found", <<>>)]
                  [] a = "403" ->
                       [wj EXCEPT !.pc = "done",
                                  !.result = Result(FALSE, "Access denied", <<>>)]
                  [] a \in {"rejected", "throw"} -> WJOuterCatch(wj, "Failed to fetch project")
                  [] OTHER ->
                       [wj EXCEPT !.pc = "board", !.projectFetched = TRUE,
                                  !.isTeamManaged = (a = "next-gen")]
    /\ UNCHANGED nonWjVars

\* lines 458-474
WJ_GetBoard ==
    /\ wj.pc = "board"
    /\ \E a \in {"board", "noBoard", "rejected", "throw"} :
          LET w1 == IF a = "throw" THEN <<Warn("boardsFetch", "")>> ELSE <<>>
              w2 == IF a # "board" THEN <<Warn("noBoard", "")>> ELSE <<>>
              f == [wj EXCEPT !.board = (a = "board"), !.warnings = @ \o w1 \o w2]
          IN  wj' = IF ~f.isTeamManaged
                    THEN [f EXCEPT !.pc = "createmeta"]
                    ELSE WJSettle([f EXCEPT !.pc = "epics", !.k = 1])
    /\ UNCHANGED nonWjVars

\* lines 477-503
WJ_GetCreateMeta ==
    /\ wj.pc = "createmeta"
    /\ \E a \in {"epicLink", "noEpicLink", "rejected", "throw"} :
          wj' = WJSettle([wj EXCEPT !.pc = "epics", !.k = 1,
                                    !.epicLinkField = (a = "epicLink"),
                                    !.warnings = IF a = "throw"
                                                 THEN Append(@, Warn("fieldMeta", ""))
                                                 ELSE @])
    /\ UNCHANGED nonWjVars

\* createIssue, lines 703-723: the outcome of the user search is only logged.
WJ_SearchAssignee ==
    /\ wj.pc \in {"epics", "issues"} /\ wj.sub = "assignee"
    /\ \E a \in JiraRequestOutcomes : wj' = [wj EXCEPT !.sub = "post"]
    /\ UNCHANGED nonWjVars

\* createIssue, lines 752-768: null unless the POST was answered with 2xx.
CreateIssueReturn(a, created) == IF a = "ok" THEN IssueKeys[Len(created) + 1] ELSE ""

\* createIssue, lines 725-738: the epic reference the payload carries.
EpicLinkSent(f, type, epic) ==
    IF epic # "" /\ type # "Epic" /\ (f.isTeamManaged \/ f.epicLinkField) THEN epic ELSE ""

\* The POST of createIssue for task t, as the backend sees it.
IssuePosted(f, t, epic) ==
    [f EXCEPT !.issuePosts =
        Append(@, [title |-> t.title, type |-> t.type,
                   epic |-> EpicLinkSent(f, t.type, epic),
                   createdBefore |-> Len(f.createdIssues)])]

\* lines 514-538
WJ_CreateEpic ==
    /\ wj.pc = "epics" /\ wj.sub = "post"
    /\ \E a \in JiraRequestOutcomes :
          LET t == EpicTasks(wj.tasks)[wj.k]
              key == CreateIssueReturn(a, wj.createdIssues)
              p == IssuePosted(wj, t, "")
          IN  wj' = IF key # ""
                    THEN WJNextIteration(
                           [p EXCEPT !.issueKeyMap = MapSet(@, t.title, key),
                                     !.createdIssues = Append(@, key)])
                    ELSE WJNextIteration(PushFailed(WJFailed(p, "epic", t.title), t.title))
    /\ UNCHANGED nonWjVars

\* lines 545-557 and createSprint 771-807
WJ_CreateSprint ==
    /\ wj.pc = "sprints" /\ wj.sub = "post"
    /\ \E a \in JiraRequestOutcomes :
          LET name == UniqueSprints(wj.tasks)[wj.k]
              p == [wj EXCEPT !.sprintPosts = Append(@, name)]
          IN
          wj' = IF a = "ok"
                THEN WJNextIteration([p EXCEPT !.sprintMap = @ \cup {name}])
                ELSE WJNextIteration(WJFailed(p, "sprint", name))
    /\ UNCHANGED nonWjVars

\* lines 578-619
WJ_CreateIssue ==
    /\ wj.pc = "issues" /\ wj.sub = "post"
    /\ \E a \in JiraRequestOutcomes :
          LET t == NonEpicTasks(wj.tasks)[wj.k]
              key == CreateIssueReturn(a, wj.createdIssues)
              p == IssuePosted(wj, t, wj.epicKey)
              f == [p EXCEPT !.issueKeyMap = MapSet(@, t.title, key),
                             !.createdIssues = Append(@, key)]
          IN  wj' = IF key = ""
                    THEN WJNextIteration(PushFailed(WJFailed(p, "issue", t.title), t.title))
                    ELSE IF t.sprint # "" /\ t.sprint \in f.sprintMap
                    THEN [f EXCEPT !.sub = "addToSprint"]
                    ELSE IF t.sprint # ""
                    THEN WJNextIteration(
                           [f EXCEPT !.warnings = Append(@, Warn("sprintNotFound", t.title))])
                    ELSE WJNextIteration(f)
    /\ UNCHANGED nonWjVars

\* lines 596-607 and addIssueToSprint 809-832
WJ_AddIssueToSprint ==
    /\ wj.pc = "issues" /\ wj.sub = "addToSprint"
    /\ \E a \in JiraRequestOutcomes :
          LET t == NonEpicTasks(wj.tasks)[wj.k]
              p == [wj EXCEPT !.sprintAdds = @ \cup {[title |-> t.title, sprint |-> t.sprint]}]
          IN
          wj' = IF a = "ok"
                THEN WJNextIteration(p)
                ELSE WJNextIteration(WJFailed(p, "addToSprint", t.title))
    /\ UNCHANGED nonWjVars

\* createIssueLink, lines 837-851: a rejected answer skips the check of the
\* link type; a missing link type or a throw makes createIssueLink return false.
WJ_GetLinkTypes ==
    /\ wj.pc = "links" /\ wj.sub = "linkTypes"
    /\ \E a \in {"found", "notFound", "rejected", "throw"} :
          LET t == BlockingTasks(wj.tasks)[wj.k] IN
          wj' = IF a \in {"found", "rejected"}
                THEN [wj EXCEPT !.sub = "post"]
                ELSE WJNextIteration(WJFailed(wj, "link", t.title))
    /\ UNCHANGED nonWjVars

\* lines 636-641 and createIssueLink 861-878
WJ_CreateIssueLink ==
    /\ wj.pc = "links" /\ wj.sub = "post"
    /\ \E a \in JiraRequestOutcomes :
          LET t == BlockingTasks(wj.tasks)[wj.k] IN
          wj' = IF a = "ok"
                THEN WJNextIteration(wj)
                ELSE WJNextIteration(WJFailed(wj, "link", t.title))
    /\ UNCHANGED nonWjVars

JiraWriteNext ==
    \/ WJ_Start
    \/ WJ_GetProject
    \/ WJ_GetBoard
    \/ WJ_GetCreateMeta
    \/ WJ_SearchAssignee
    \/ WJ_CreateEpic
    \/ WJ_CreateSprint
    \/ WJ_CreateIssue
    \/ WJ_AddIssueToSprint
    \/ WJ_GetLinkTypes
    \/ WJ_CreateIssueLink

-----------------------------------------------------------------------------
(* writeTrelloBoard: trello-tool.ts 378-616.  Every remote call goes       *)
(* through makeApiCall, which returns the decoded body, returns undefined  *)
(* when every attempt was answered 429, or throws.                         *)

ApiOutcomes == {"value", "undefined", "throw"}

TCard(t, ls, items) == [title |-> t, labels |-> ls, checklist |-> items]

TList(n, cs) == [name |-> n, cards |-> cs]

\* Inputs that pass the tool's inputSchema (lines 86-103).
BoardDatas ==
    { [labels |-> <<>>, lists |-> <<>>],
      [labels |-> <<"L">>,
       lists |-> <<TList("A", <<TCard("c1", <<"L">>, <<"i1", "">>)>>)>>],
      [labels |-> <<>>,
       lists |-> <<TList("A", <<>>), TList("B", <<TCard("c2", <<>>, <<>>)>>)>>],
      [labels |-> <<"L", "L">>,
       lists |-> <<TList("A", <<TCard("c3", <<"L", "M">>, <<>>)>>)>>],
      [labels |-> <<>>,
       lists |-> <<TList("A", <<TCard("c5", <<>>, <<"i1", "i2", "i3", "i4", "i5">>)>>)>>],
      [labels |-> <<>>, lists |-> <<TList("A", <<>>), TList("a", <<>>)>>] }

\* lines 383-384
OptionSets ==
    [archiveExistingLists : BOOLEAN, createWorkspaceIfNotExists : BOOLEAN]

\* What readTrelloBoard gave for one card; nothing before the read.
NoRead == [card |-> "", answer |-> "none", items |-> <<>>]

WTIdle ==
    [pc |-> "idle", boardData |-> [labels |-> <<>>, lists |-> <<>>],
     options |-> [archiveExistingLists |-> TRUE, createWorkspaceIfNotExists |-> FALSE],
     connect |-> "none", board |-> "none", boardExisted |-> FALSE, left |-> 0,
     labelMap |-> {}, labelsCreated |-> 0, listsCreated |-> 0, totalCards |-> 0,
     warnings |-> <<>>, failures |-> {},
     posts |-> <<>>, cardsCreated |-> {}, checkItems |-> <<>>, readBack |-> NoRead,
     list |-> "none", card |-> "none", checklist |-> "none",
     lk |-> 0, li |-> 0, ci |-> 0, ki |-> 0,
     remote |-> <<>>, result |-> NoResult]

\* Mutant: the exception leaves writeTrelloBoard and execute.
WTOuterRethrow(f, msg) == [f EXCEPT !.pc = "raised"]

\* lines 609-615
WTOuterCatch(f, msg) == [f EXCEPT !.pc = "done", !.result = Result(FALSE, msg, <<>>)]

\* String.prototype.toLowerCase on the names of the model.
ToLowerCase(name) ==
    CASE name = "A" -> "a" [] name = "B" -> "b" [] name = "L" -> "l" [] name = "M" -> "m"
      [] OTHER -> name

\* lines 201-202 and 209-210: the lowered names that occurred earlier in the list.
DuplicateNames(names) ==
    LET lower == [k \in 1..Len(names) |-> ToLowerCase(names[k])]
        again == SelectSeq([k \in 1..Len(names) |-> k],
                           LAMBDA k : \E j \in 1..(k - 1) : lower[j] = lower[k])
    IN  [k \in 1..Len(again) |-> lower[again[k]]]

\* Mutant: duplicates are looked for without lowering the names.
ExecuteWarningsCaseSensitive(boardData) ==
    LET names == [k \in 1..Len(boardData.lists) |-> boardData.lists[k].name]
        again == SelectSeq([k \in 1..Len(names) |-> k],
                           LAMBDA k : \E j \in 1..(k - 1) : names[j] = names[k])
    IN  IF Len(again) > 0
        THEN <<Warn("duplicateLists", [k \in 1..Len(again) |-> names[again[k]]])>>
        ELSE <<>>

\* trelloTool.execute, lines 200-215: the warnings for duplicate names.
ExecuteWarnings(boardData) ==
    LET lists == DuplicateNames([k \in 1..Len(boardData.lists) |-> boardData.lists[k].name])
        labels == DuplicateNames(boardData.labels)
    IN  (IF Len(lists) > 0 THEN <<Warn("duplicateLists", lists)>> ELSE <<>>)
        \o (IF Len(labels) > 0 THEN <<Warn("duplicateLabels", labels)>> ELSE <<>>)

\* lines 600-608 and execute 217-223; board.url throws when makeApiCall
\* gave no board.
WTReturn(f) ==
    IF f.board = "undefined"
    THEN WTOuterCatch(f, "TypeError")
    ELSE [f EXCEPT !.pc = "done", !.result = Result(TRUE, "", f.warnings)]

\* The id the backend gives to the n-th label it creates.
LabelIds == <<"label-1", "label-2">>

\* A label or card POST that was issued: its name and, for a card, idLabels.
Posted(f, what, name, ids) ==
    [f EXCEPT !.posts = Append(@, [what |-> what, name |-> name, idLabels |-> ids])]

\* lines 540-547: the ids labelMap holds for the card's labels
CardLabelIds(f, card) ==
    {MapGet(f.labelMap, card.labels[k]) : k \in 1..Len(card.labels)} \ {""}

\* The remote created an object of kind k.
Remote(f, k) == [f EXCEPT !.remote = Append(@, k)]

\* The call for an object of kind k gave no object: the catch blocks only
\* log to the console (the record of the failure is kept for the properties).
WTFailed(f, k) == [f EXCEPT !.failures = @ \cup {k}]

\* The frame after a call for an object of kind k answered a.
WTAnswered(f, a, k) == IF a = "value" THEN Remote(f, k) ELSE WTFailed(f, k)

\* Mutant: the identifier of a missing object is read without a TypeError.
HasIdAlways(x) == TRUE

\* lines 514, 528, 560, 574: board.id, list.id, card.id and checklist.id
\* throw a TypeError when makeApiCall returned undefined.
HasId(x) == x = "value"

\* Runs the code from position f.pc up to the next remote call: skips
\* finished loops and the iterations that end, before any call, in a caught
\* TypeError on an undefined board, list, card or checklist.
RECURSIVE WTSettle(_)
WTSettle(f) ==
    LET lists == f.boardData.lists
        cards == lists[f.li].cards
        items == cards[f.ci].checklist
    IN
    CASE f.pc = "archiveStart" ->
           IF f.options.archiveExistingLists /\ f.board # "undefined"
           THEN [f EXCEPT !.pc = "existingLists"]
           ELSE WTSettle([f EXCEPT !.pc = "labels", !.lk = 1])
      [] f.pc = "archive" ->
           IF f.left = 0 THEN WTSettle([f EXCEPT !.pc = "labels", !.lk = 1]) ELSE f
      [] f.pc = "labels" ->
           IF f.lk > Len(f.boardData.labels) THEN [f EXCEPT !.pc = "member"]
           ELSE IF f.board = "undefined" THEN WTSettle([f EXCEPT !.lk = @ + 1])
           ELSE f
      [] f.pc = "lists" ->
           IF f.li > Len(lists) THEN WTReturn(f)
           ELSE IF ~HasId(f.board) THEN WTSettle([f EXCEPT !.li = @ + 1])
           ELSE f
      [] f.pc = "cards" ->
           IF f.ci > Len(cards) THEN WTSettle([f EXCEPT !.pc = "lists", !.li = @ + 1])
           ELSE IF ~HasId(f.list) THEN WTSettle([f EXCEPT !.ci = @ + 1])
           ELSE f
      [] f.pc = "checklist" ->
           IF Len(items) = 0 \/ ~HasId(f.card)
           THEN WTSettle([f EXCEPT !.pc = "cards", !.ci = @ + 1])
           ELSE f
      [] f.pc = "items" ->
           IF f.ki > Len(items) THEN WTSettle([f EXCEPT !.pc = "cards", !.ci = @ + 1])
           ELSE IF items[f.ki] = "" \/ ~HasId(f.checklist)
           THEN WTSettle([f EXCEPT !.ki = @ + 1])
           ELSE f
      [] OTHER -> f

\* trelloTool.execute, lines 183-217: a request without lists is refused;
\* otherwise the duplicate names are noted and writeTrelloBoard is called.
WT_Start ==
    /\ wt.pc = "idle"
    /\ \E d \in BoardDatas, o \in OptionSets :
          wt' = IF Len(d.lists) = 0
                THEN [WTIdle EXCEPT !.pc = "done", !.boardData = d, !.options = o,
                                    !.result = Result(FALSE, "Empty board data", <<>>)]
                ELSE [WTIdle EXCEPT !.pc = "connect", !.boardData = d, !.options = o,
                                    !.warnings = ExecuteWarnings(d)]
    /\ UNCHANGED nonWtVars

\* lines 387-391: makeApiCall with retries = 1
WT_Connect ==
    /\ wt.pc = "connect"
    /\ \E a \in ApiOutcomes :
          LET f == [wt EXCEPT !.connect = a] IN
          wt' = IF a = "throw" THEN WTOuterCatch(f, "Failed to connect to Trello API")
                ELSE [f EXCEPT !.pc = "organizations"]
    /\ UNCHANGED nonWtVars

\* lines 394-404
WT_GetOrganizations ==
    /\ wt.pc = "organizations"
    /\ \E a \in {"found", "notFound", "undefined", "throw"} :
          wt' = CASE a = "throw" -> WTOuterCatch(wt, "API Error")
                  [] a = "undefined" -> WTOuterCatch(wt, "TypeError")
                  [] a = "found" -> [wt EXCEPT !.pc = "boards"]
                  [] OTHER ->
                       IF wt.options.createWorkspaceIfNotExists
                       THEN [wt EXCEPT !.pc = "workspace"]
                       ELSE WTOuterCatch(wt, "Workspace not found")
    /\ UNCHANGED nonWtVars

\* lines 407-423: workspace.id throws when makeApiCall gave no workspace.
WT_CreateWorkspace ==
    /\ wt.pc = "workspace"
    /\ \E a \in ApiOutcomes :
          wt' = CASE a = "throw" -> WTOuterCatch(wt, "Failed to create workspace")
                  [] a = "undefined" -> WTOuterCatch(wt, "TypeError")
                  [] OTHER -> [Remote(wt, "workspace") EXCEPT !.pc = "boards"]
    /\ UNCHANGED nonWtVars

\* lines 423-426
WT_GetBoards ==
    /\ wt.pc = "boards"
    /\ \E a \in {"found", "notFound", "undefined", "throw"} :
          wt' = CASE a = "throw" -> WTOuterCatch(wt, "API Error")
                  [] a = "undefined" -> WTOuterCatch(wt, "TypeError")
                  [] a = "found" ->
                       WTSettle([wt EXCEPT !.pc = "archiveStart", !.board = "value",
                                           !.boardExisted = TRUE])
                  [] OTHER -> [wt EXCEPT !.pc = "board"]
    /\ UNCHANGED nonWtVars

\* lines 427-441
WT_CreateBoard ==
    /\ wt.pc = "board"
    /\ \E a \in ApiOutcomes :
          wt' = CASE a = "throw" -> WTOuterCatch(wt, "Failed to create board")
                  [] a = "undefined" ->
                       WTSettle([wt EXCEPT !.pc = "archiveStart", !.board = "undefined"])
                  [] OTHER ->
                       WTSettle([Remote(wt, "board")
                                   EXCEPT !.pc = "archiveStart", !.board = "value"])
    /\ UNCHANGED nonWtVars

\* lines 445-463: an undefined answer or a throw is caught and logged.
WT_GetExistingLists ==
    /\ wt.pc = "existingLists"
    /\ \E a \in {"value", "undefined", "throw"}, n \in 0..MaxDefaultLists :
          wt' = IF a = "value"
                THEN WTSettle([wt EXCEPT !.pc = "archive", !.left = n])
                ELSE WTSettle([wt EXCEPT !.pc = "labels", !.lk = 1])
    /\ UNCHANGED nonWtVars

\* lines 450-458
WT_ArchiveList ==
    /\ wt.pc = "archive"
    /\ \E a \in ApiOutcomes :
          LET f == WTAnswered(wt, a, "archived") IN
          wt' = WTSettle([f EXCEPT !.left = @ - 1])
    /\ UNCHANGED nonWtVars

\* lines 474-490: createdLabel.id throws, inside the try, on undefined.
WT_CreateLabel ==
    /\ wt.pc = "labels"
    /\ \E a \in ApiOutcomes :
          LET name == wt.boardData.labels[wt.lk]
              p == Posted(wt, "label", name, {})
          IN
          wt' = IF a = "value"
                THEN WTSettle([Remote(p, "label")
                                 EXCEPT !.lk = @ + 1,
                                        !.labelMap = MapSet(@, name, LabelIds[p.labelsCreated + 1]),
                                        !.labelsCreated = @ + 1])
                ELSE WTSettle([WTFailed(p, "label") EXCEPT !.lk = @ + 1])
    /\ UNCHANGED nonWtVars

\* lines 495-498: not inside any inner try.
WT_GetMember ==
    /\ wt.pc = "member"
    /\ \E a \in {"value", "noId", "undefined", "throw"} :
          wt' = CASE a = "throw" -> WTOuterCatch(wt, "API Error")
                  [] a = "undefined" -> WTOuterCatch(wt, "TypeError")
                  [] a = "noId" ->
                       WTOuterCatch(wt, "Failed to get current member information")
                  [] OTHER -> WTSettle([wt EXCEPT !.pc = "lists", !.li = 1])
    /\ UNCHANGED nonWtVars

\* lines 507-518 and 595-597: listsCreated++ follows any return of makeApiCall.
WT_CreateList ==
    /\ wt.pc = "lists"
    /\ \E a \in ApiOutcomes :
          LET f == WTAnswered(wt, a, "list") IN
          wt' = IF a = "throw"
                THEN WTSettle([f EXCEPT !.li = @ + 1])
                ELSE WTSettle([f EXCEPT !.pc = "cards", !.ci = 1, !.list = a,
                                        !.listsCreated = @ + 1])
    /\ UNCHANGED nonWtVars

\* lines 525-555 and 590-592
WT_CreateCard ==
    /\ wt.pc = "cards"
    /\ \E a \in ApiOutcomes :
          LET card == wt.boardData.lists[wt.li].cards[wt.ci]
              p == Posted(wt, "card", card.title, CardLabelIds(wt, card))
              f == IF a = "value"
                   THEN [Remote(p, "card") EXCEPT !.cardsCreated = @ \cup {card.title}]
                   ELSE WTFailed(p, "card")
          IN
          wt' = IF a = "throw"
                THEN WTSettle([f EXCEPT !.ci = @ + 1])
                ELSE WTSettle([f EXCEPT !.pc = "checklist", !.card = a,
                                        !.totalCards = @ + 1])
    /\ UNCHANGED nonWtVars

\* lines 558-567 and 586-588
WT_CreateChecklist ==
    /\ wt.pc = "checklist"
    /\ \E a \in ApiOutcomes :
          LET f == WTAnswered(wt, a, "checklist") IN
          wt' = IF a = "throw"
                THEN WTSettle([f EXCEPT !.pc = "cards", !.ci = @ + 1])
                ELSE WTSettle([f EXCEPT !.pc = "items", !.ki = 1, !.checklist = a])
    /\ UNCHANGED nonWtVars

\* lines 570-585
WT_CreateCheckItem ==
    /\ wt.pc = "items"
    /\ \E a \in ApiOutcomes :
          LET card == wt.boardData.lists[wt.li].cards[wt.ci]
              item == [card |-> card.title, name |-> card.checklist[wt.ki]]
              f == IF a = "value"
                   THEN [Remote(wt, "checkItem") EXCEPT !.checkItems = Append(@, item)]
                   ELSE WTFailed(wt, "checkItem")
          IN
          wt' = WTSettle([f EXCEPT !.ki = @ + 1])
    /\ UNCHANGED nonWtVars

\* readTrelloBoard, line 346: item.name || 'Unnamed Item'
ReadItemName(name) == IF name = "" THEN "Unnamed Item" ELSE name

\* readTrelloBoard, lines 343-349: the items of the card's checklists, in the
\* order the backend lists them (new items are added at the bottom).
ReadCheckItems(f, title) ==
    LET own == SelectSeq(f.checkItems, LAMBDA e : e.card = title)
    IN  [k \in 1..Len(own) |-> ReadItemName(own[k].name)]

\* readTrelloBoard, lines 326-356, for one card of the board just written:
\* an undefined answer reads as no checklist, a throw drops the card.
RT_GetChecklists ==
    /\ wt.pc = "done" /\ wt.result.success /\ wt.readBack = NoRead
    /\ \E title \in wt.cardsCreated, a \in ApiOutcomes :
          wt' = [wt EXCEPT !.readBack =
                    [card |-> title, answer |-> a,
                     items |-> IF a = "value" THEN ReadCheckItems(wt, title) ELSE <<>>]]
    /\ UNCHANGED nonWtVars

TrelloWriteNext ==
    \/ WT_Start
    \/ WT_Connect
    \/ WT_GetOrganizations
    \/ WT_CreateWorkspace
    \/ WT_GetBoards
    \/ WT_CreateBoard
    \/ WT_GetExistingLists
    \/ WT_ArchiveList
    \/ WT_CreateLabel
    \/ WT_GetMember
    \/ WT_CreateList
    \/ WT_CreateCard
    \/ WT_CreateChecklist
    \/ WT_CreateCheckItem
    \/ RT_GetChecklists

-----------------------------------------------------------------------------
(* Credential checks of the entry points: jiraTool.execute (part_001       *)
(* 96-112, validateConfig 160-182), trelloTool.execute (trello-tool.ts     *)
(* 150-179), and the request helpers of the workflows, trelloRequest       *)
(* (trello-workflow.ts 88-112) and jiraRequest (505-541).                  *)

\* What an environment variable holds: nothing (unset or empty), white
\* space only, a value of the wrong form (no @ in the e-mail, a token or
\* key that is too short, a URL without https://), or a well-formed value.
EnvValues == {"unset", "blank", "malformed", "valid"}

JiraEnvs == [email : EnvValues, apiToken : EnvValues, baseUrl : EnvValues]

TrelloEnvs == [apiKey : EnvValues, token : EnvValues]

\* process.env.X?.trim() || ''
TrimOrEmpty(v) == IF v \in {"unset", "blank"} THEN "" ELSE v

\* validateConfig, part_001 160-182
ValidateConfig(config) ==
    {f \in {"email", "apiToken", "baseUrl"} : config[f] # "valid"}

\* part_001 98-112
JiraToolConfigOk(env) ==
    ValidateConfig([f \in {"email", "apiToken", "baseUrl"} |-> TrimOrEmpty(env[f])]) = {}

\* trello-tool.ts 163-179: both values present, both at least 20 long
TrelloToolConfigOk(env) ==
    /\ TrimOrEmpty(env.apiKey) # "" /\ TrimOrEmpty(env.token) # ""
    /\ TrimOrEmpty(env.apiKey) # "malformed" /\ TrimOrEmpty(env.token) # "malformed"

\* getAuthParams, trello-workflow.ts 88-96: throws unless both are truthy
GetAuthParams(env) == env.apiKey # "unset" /\ env.token # "unset"

\* getAuth, trello-workflow.ts 505-512
GetAuth(env) == env.email # "unset" /\ env.apiToken # "unset"

CCIdle == [entry |-> "none", env |-> <<>>, pc |-> "idle", remoteCalls |-> 0, error |-> ""]

CCStart(e, env) == [CCIdle EXCEPT !.entry = e, !.env = env, !.pc = "check"]

\* The entry point returns or throws its configuration error.
CCConfigError(f) == [f EXCEPT !.pc = "done", !.error = "configuration"]

\* The entry point goes on to its first fetch.
CCFetch(f) == [f EXCEPT !.pc = "done", !.remoteCalls = @ + 1]

CC_JiraToolExecute ==
    /\ cc.pc = "idle"
    /\ \E env \in JiraEnvs :
          LET f == CCStart("jiraTool", env) IN
          cc' = IF JiraToolConfigOk(env) THEN CCFetch(f) ELSE CCConfigError(f)
    /\ UNCHANGED nonCcVars

CC_TrelloToolExecute ==
    /\ cc.pc = "idle"
    /\ \E env \in TrelloEnvs :
          LET f == CCStart("trelloTool", env) IN
          cc' = IF TrelloToolConfigOk(env) THEN CCFetch(f) ELSE CCConfigError(f)
    /\ UNCHANGED nonCcVars

CC_TrelloRequest ==
    /\ cc.pc = "idle"
    /\ \E env \in TrelloEnvs :
          LET f == CCStart("trelloRequest", env) IN
          cc' = IF GetAuthParams(env) THEN CCFetch(f) ELSE CCConfigError(f)
    /\ UNCHANGED nonCcVars

CC_JiraRequest ==
    /\ cc.pc = "idle"
    /\ \E env \in JiraEnvs :
          LET f == CCStart("jiraRequest", env) IN
          cc' = IF GetAuth(env) THEN CCFetch(f) ELSE CCConfigError(f)
    /\ UNCHANGED nonCcVars

ConfigNext ==
    \/ CC_JiraToolExecute
    \/ CC_TrelloToolExecute
    \/ CC_TrelloRequest
    \/ CC_JiraRequest

-----------------------------------------------------------------------------
(* Concurrent write runs.  Each invocation of writeJiraIssues has its own   *)
(* issueKeyMap, createdIssues, failedIssues and warnings (part_001 422,     *)
(* 505-508), as writeTrelloBoard has its labelMap and counters and          *)
(* trelloTool.execute its warnings; the runs share the backend only.  The   *)
(* model interleaves the issue creations of the runs at their awaits.       *)

RunIds == 1..MaxRuns

\* The tasks of run r: two issues with titles of its own.
RunTasks(r) == <<[run |-> r, n |-> 1], [run |-> r, n |-> 2]>>

\* lines 422, 505-508: the locals of one invocation.
RunIdle ==
    [pc |-> "idle", k |-> 0, createdIssues |-> <<>>, failedIssues |-> <<>>,
     warnings |-> <<>>, result |-> NoResult, ledger |-> <<>>]

\* issued[n] is the run whose request made the backend create issue n.
CRIdle == [runs |-> [r \in RunIds |-> RunIdle], issued |-> <<>>]

\* Mutant: createdIssues is one array shared by all invocations.
PushCreatedShared(c, r, key) ==
    [c EXCEPT !.runs = [q \in RunIds |->
                          [c.runs[q] EXCEPT !.createdIssues = Append(@, key)]]]

\* lines 523 and 583: createdIssues.push(issue.key) on the array of run r.
PushCreated(c, r, key) == [c EXCEPT !.runs[r].createdIssues = Append(@, key)]

CR_Start ==
    /\ \E r \in RunIds :
          /\ cr.runs[r].pc = "idle"
          /\ cr' = [cr EXCEPT !.runs[r].pc = "issues", !.runs[r].k = 1]
    /\ UNCHANGED nonCrVars

\* lines 578-619: one awaited createIssue of run r.
CR_CreateIssue ==
    /\ \E r \in RunIds, a \in JiraRequestOutcomes :
          LET f == cr.runs[r]
              t == RunTasks(r)[f.k]
              key == Len(cr.issued) + 1
              c == [cr EXCEPT !.runs[r].k = @ + 1]
          IN
          /\ f.pc = "issues" /\ f.k <= Len(RunTasks(r))
          /\ cr' = IF a = "ok"
                    THEN [PushCreated(c, r, key) EXCEPT !.issued = Append(@, r)]
                    ELSE [c EXCEPT !.runs[r].failedIssues = Append(@, t),
                                   !.runs[r].warnings = Append(@, t)]
    /\ UNCHANGED nonCrVars

\* lines 656-672: the result of run r.
CR_Return ==
    /\ \E r \in RunIds :
          LET f == cr.runs[r] IN
          /\ f.pc = "issues" /\ f.k > Len(RunTasks(r))
          /\ cr' = [cr EXCEPT !.runs[r].pc = "done",
                               !.runs[r].result = WriteJiraResult(f.createdIssues, f.warnings),
                               !.runs[r].ledger = f.createdIssues]
    /\ UNCHANGED nonCrVars

ConcurrentNext ==
    \/ CR_Start
    \/ CR_CreateIssue
    \/ CR_Return

-----------------------------------------------------------------------------
(* The capability probe of createJiraIssues: trello-workflow.ts 909-955 *)

\* line 935: the field ids tried for story points, in this order.
StoryPointFieldIds == <<"customfield_10016", "customfield_10002", "customfield_10026">>

StoryFieldNames == {"priority", "customfield_10016", "customfield_10002", "customfield_10026"}

\* The createmeta body of a project as the probe reads it: whether
\* projects[0] exists, whether it has an issuetypes array, the Story issue
\* type ("absent", "noFields" or "fields") with its field names, and
\* whether a Sub-task issue type exists.
CreateMeta(hp, it, st, fs, sub) ==
    [hasProject |-> hp, hasIssueTypes |-> it, story |-> st, fields |-> fs, subtask |-> sub]

CreateMetas ==
    {CreateMeta(FALSE, FALSE, "absent", {}, FALSE), CreateMeta(TRUE, FALSE, "absent", {}, FALSE)}
    \cup {CreateMeta(TRUE, TRUE, st, {}, sub) : st \in {"absent", "noFields"}, sub \in BOOLEAN}
    \cup {CreateMeta(TRUE, TRUE, "fields", fs, sub) : fs \in SUBSET StoryFieldNames, sub \in BOOLEAN}

\* lines 909-915: the profile every probe starts from.
DefaultCapabilities ==
    [supportsPriority |-> FALSE, supportsSubtasks |-> FALSE, supportsStoryPoints |-> FALSE,
     priorityFieldId |-> "null", storyPointsFieldId |-> "null"]

\* lines 935-942: the first of the known field ids the Story type has.
RECURSIVE FirstStoryPointField(_, _)
FirstStoryPointField(fs, k) ==
    IF k > Len(StoryPointFieldIds) THEN "null"
    ELSE IF StoryPointFieldIds[k] \in fs THEN StoryPointFieldIds[k]
    ELSE FirstStoryPointField(fs, k + 1)

\* lines 917-955: the profile the probe leaves for one answer of the
\* createmeta request.  A rejected request and a body without issuetypes
\* (a TypeError at line 924) throw before anything is assigned.
DetectCapabilities(answered, meta) ==
    IF ~answered \/ ~meta.hasProject \/ ~meta.hasIssueTypes THEN DefaultCapabilities
    ELSE LET withStory ==
                 IF meta.story = "fields"
                 THEN LET sp == FirstStoryPointField(meta.fields, 1) IN
                      [DefaultCapabilities EXCEPT
                         !.supportsPriority = "priority" \in meta.fields,
                         !.priorityFieldId = IF "priority" \in meta.fields
                                             THEN "priority" ELSE "null",
                         !.supportsStoryPoints = sp # "null",
                         !.storyPointsFieldId = sp]
                 ELSE DefaultCapabilities
         IN [withStory EXCEPT !.supportsSubtasks = meta.subtask]

\* Mutant: reading the metadata adds a Sub-task issue type to the project.
RemoteAfterGetWritten(meta) == [meta EXCEPT !.subtask = TRUE]

\* line 918 and jiraRequest 515-540: the request is a GET without a body;
\* it leaves the remote project as it was.
RemoteAfterGet(meta) == meta

PBIdle == [pc |-> "idle", remote |-> CreateMeta(FALSE, FALSE, "absent", {}, FALSE),
           probes |-> <<>>]

\* A target project with some metadata is there.
PB_Start ==
    /\ pb.pc = "idle"
    /\ \E meta \in CreateMetas : pb' = [pb EXCEPT !.pc = "ready", !.remote = meta]
    /\ UNCHANGED nonPbVars

\* lines 909-955: one probe; the createmeta request is answered or fails.
PB_Probe ==
    /\ pb.pc = "ready"
    /\ Len(pb.probes) < MaxProbes
    /\ \E answered \in BOOLEAN :
          pb' = [pb EXCEPT
                   !.probes = Append(@, [answered |-> answered,
                                         caps |-> DetectCapabilities(answered, pb.remote)]),
                   !.remote = RemoteAfterGet(@)]
    /\ UNCHANGED nonPbVars

ProbeNext ==
    \/ PB_Start
    \/ PB_Probe

-----------------------------------------------------------------------------
(* readJiraProject: unnamed/part_001 262-415 *)

\* line 332
MaxResults == 100

\* One entry of an issue's customfield_10020.  id 0 or an empty name stand
\* for an entry that has no such property (or is null).
SprintEntry(id, name) == [id |-> id, name |-> name]

\* The customfield_10020 values of the issues of one page, in page order:
\* an empty page, an issue without sprints and one in a sprint, an issue in
\* two sprints, and an issue whose only entry has an id but no name (the
\* field holds something else than sprints on that site) before one
\* without sprints.
PageShapes ==
    { <<>>,
      << <<>>, <<SprintEntry(1, "Sprint 1")>> >>,
      << <<SprintEntry(1, "Sprint 1"), SprintEntry(2, "Sprint 2")>> >>,
      << <<SprintEntry(7, "")>>, <<>> >> }

\* The issues of the page at startAt with the given sprint fields.
PageIssues(startAt, shape) ==
    [n \in 1..Len(shape) |-> [key |-> <<startAt, n>>, sprints |-> shape[n]]]

\* The body of a search answer may lack a field: line 345 allows for a
\* missing issues array.  NoTotal stands for a body without total.
NoTotal == 0 - 1

\* The totals a search answer reports.
Totals == {NoTotal, 0, MaxResults, MaxResults + 1, 2 * MaxResults, 2 * MaxResults + 1, MaxTotal}

NoProject == [done |-> FALSE, success |-> FALSE, error |-> "", sprints |-> <<>>, backlog |-> <<>>]

RJIdle == [pc |-> "idle", startAt |-> 0, allIssues |-> <<>>, pages |-> <<>>,
           result |-> NoProject]

\* lines 408-414 and the early returns 274-288
RJFailure(f, msg) ==
    [f EXCEPT !.pc = "done", !.result = [NoProject EXCEPT !.done = TRUE, !.error = msg]]

\* line 373: if (sprint && sprint.id && sprint.name)
SprintEntryOk(sprint) == sprint.id # 0 /\ sprint.name # ""

GroupIndex(groups, id) ==
    IF \E g \in 1..Len(groups) : groups[g].id = id
    THEN CHOOSE g \in 1..Len(groups) : groups[g].id = id
    ELSE 0

\* lines 372-384: one entry of the issue's sprint field is put into
\* sprintMap, which keeps its keys in insertion order.
RECURSIVE AddToSprints(_, _, _)
AddToSprints(groups, issue, k) ==
    IF k > Len(issue.sprints) THEN groups
    ELSE LET sprint == issue.sprints[k]
             g == GroupIndex(groups, sprint.id)
             entry == [key |-> issue.key, sprint |-> sprint.name]
         IN  IF ~SprintEntryOk(sprint) THEN AddToSprints(groups, issue, k + 1)
             ELSE IF g = 0
             THEN AddToSprints(Append(groups, [id |-> sprint.id, name |-> sprint.name,
                                               issues |-> <<entry>>]), issue, k + 1)
             ELSE AddToSprints([groups EXCEPT ![g].issues = Append(@, entry)], issue, k + 1)

\* lines 369-387: the else branch of
\* if (Array.isArray(issueSprints) && issueSprints.length > 0)
ToBacklog(issue) == Len(issue.sprints) = 0

\* lines 354-401: the loop over allIssues, from issue k on.
RECURSIVE Organize(_, _, _)
Organize(acc, issues, k) ==
    IF k > Len(issues) THEN acc
    ELSE Organize(IF ToBacklog(issues[k])
                  THEN [acc EXCEPT !.backlog = Append(@, issues[k].key)]
                  ELSE [acc EXCEPT !.sprints = AddToSprints(@, issues[k], 1)],
                  issues, k + 1)

\* lines 403-407
RJReturn(f) ==
    LET o == Organize([sprints |-> <<>>, backlog |-> <<>>], f.allIssues, 1) IN
    [f EXCEPT !.pc = "done",
              !.result = [done |-> TRUE, success |-> TRUE, error |-> "",
                          sprints |-> o.sprints, backlog |-> o.backlog]]

\* line 347: if (issueData.total <= startAt + maxResults) break
\* (undefined <= n is false)
LastPage(total, startAt) == total # NoTotal /\ total <= startAt + MaxResults

\* line 350: startAt += maxResults
NextStartAt(startAt) == startAt + MaxResults

RJ_Start ==
    /\ rj.pc = "idle"
    /\ rj' = [RJIdle EXCEPT !.pc = "project"]
    /\ UNCHANGED nonRjVars

\* lines 271-296
RJ_GetProject ==
    /\ rj.pc = "project"
    /\ \E a \in {"ok", "404", "403", "rejected", "throw"} :
          rj' = CASE a = "ok" -> [rj EXCEPT !.pc = "board"]
                  [] a = "404" -> RJFailure(rj, "Project not found")
                  [] a = "403" -> RJFailure(rj, "Access denied")
                  [] OTHER -> RJFailure(rj, "Failed to fetch project")
    /\ UNCHANGED nonRjVars

\* lines 299-311: the failure of the board lookup is only logged.
RJ_GetBoard ==
    /\ rj.pc = "board"
    /\ \E a \in {"board", "noBoard", "rejected", "throw"} :
          rj' = [rj EXCEPT !.pc = IF a = "board" THEN "sprints" ELSE "search"]
    /\ UNCHANGED nonRjVars

\* lines 313-327: the sprints of the board are fetched and not used again.
RJ_GetSprints ==
    /\ rj.pc = "sprints"
    /\ \E a \in JiraRequestOutcomes : rj' = [rj EXCEPT !.pc = "search"]
    /\ UNCHANGED nonRjVars

\* lines 334-351: one iteration of the pagination loop.
RJ_Search ==
    /\ rj.pc = "search"
    /\ Len(rj.pages) < MaxPages
    /\ \/ \E a \in {"rejected", "throw"} :
             rj' = RJFailure([rj EXCEPT !.pages = Append(@, [startAt |-> rj.startAt, ok |-> FALSE,
                                                             total |-> 0, issues |-> <<>>])],
                             "Failed to fetch issues")
       \/ \E shape \in PageShapes, total \in Totals :
             LET page == PageIssues(rj.startAt, shape)
                 f == [rj EXCEPT !.allIssues = @ \o page,
                                 !.pages = Append(@, [startAt |-> rj.startAt, ok |-> TRUE,
                                                      total |-> total, issues |-> page])]
             IN  rj' = IF LastPage(total, rj.startAt)
                       THEN RJReturn(f)
                       ELSE [f EXCEPT !.startAt = NextStartAt(@)]
    /\ UNCHANGED nonRjVars

JiraReadNext ==
    \/ RJ_Start
    \/ RJ_GetProject
    \/ RJ_GetBoard
    \/ RJ_GetSprints
    \/ RJ_Search

-----------------------------------------------------------------------------
(* jiraTool.execute: unnamed/part_001 94-158, validateTasks 189-227 *)

\* Time in half days: day d begins at Midnight(d), which is what
\* new Date("YYYY-MM-DD") gives for the date of day d.
Midnight(d) == 2 * d

\* A task's dueDate: absent, a date that matches the schema's pattern and
\* is no date of the calendar (such as 2025-02-30), or the date of a day.
NoDate == 0

InvalidDate == 0 - 1

VTask(ti, ty, ep, due) == [title |-> ti, type |-> ty, epic |-> ep, dueDate |-> due]

\* The task lists of the requests.
TaskLists ==
    { <<>>,
      <<VTask("A", "Task", "", NoDate)>>,
      <<VTask("A", "Task", "", NoDate), VTask("A", "Bug", "", NoDate)>>,
      <<VTask("A", "Task", "", 1)>>,
      <<VTask("A", "Task", "", 2)>>,
      <<VTask("A", "Task", "", 3)>>,
      <<VTask("A", "Task", "", InvalidDate)>>,
      <<VTask("S", "Story", "E", NoDate), VTask("E", "Epic", "", 3)>>,
      <<VTask("S", "Story", "Missing", NoDate), VTask("T", "Task", "", NoDate)>>,
      <<VTask("S", "Story", "OTH-1", NoDate)>> }

\* The moments at which execute runs: the midnight and the midday of day 2.
Nows == {Midnight(2), Midnight(2) + 1}

\* String.prototype.includes('-') on the references above.
IncludesDash(ref) == ref \in {"OTH-1", "PROJ-9"}

\* lines 206-214: the errors for the due date of one task.
DueDateErrors(task, now) ==
    IF task.dueDate = NoDate THEN <<>>
    ELSE IF task.dueDate = InvalidDate THEN <<"invalidDueDate">>
    ELSE IF Midnight(task.dueDate) < now THEN <<"dueDateInPast">>
    ELSE <<>>

\* lines 194-220: the first pass, from task k on; st holds taskTitles,
\* epics and errors.
RECURSIVE CollectTitles(_, _, _, _)
CollectTitles(st, tasks, now, k) ==
    IF k > Len(tasks) THEN st
    ELSE LET task == tasks[k] IN
         CollectTitles(
           [taskTitles |-> st.taskTitles \cup {task.title},
            epics |-> IF task.type = "Epic" THEN st.epics \cup {task.title} ELSE st.epics,
            errors |-> st.errors
                       \o (IF task.title \in st.taskTitles THEN <<"duplicateTitle">> ELSE <<>>)
                       \o DueDateErrors(task, now)],
           tasks, now, k + 1)

\* Mutant: a reference to an epic is never looked up.
EpicRefMissingNever(task, epics) == FALSE

\* line 223: task.epic && !epics.has(task.epic) && !task.epic.includes('-')
EpicRefMissing(task, epics) ==
    task.epic # "" /\ task.epic \notin epics /\ ~IncludesDash(task.epic)

\* validateTasks, lines 189-227: the errors of a task list.
ValidateTasks(tasks, now) ==
    LET st == CollectTitles([taskTitles |-> {}, epics |-> {}, errors |-> <<>>], tasks, now, 1)
        missing == SelectSeq(tasks, LAMBDA task : EpicRefMissing(task, st.epics))
    IN  st.errors \o [k \in 1..Len(missing) |-> "epicNotFound"]

JEIdle == [pc |-> "idle", action |-> "read", tasks |-> <<>>, now |-> 0,
           calls |-> 0, result |-> NoResult]

\* execute, lines 94-142: the checks made before the first remote call.
ExecuteChecks(configOk, keyOk, action, tasks, now) ==
    IF ~configOk THEN "Invalid Jira configuration"
    ELSE IF ~keyOk THEN "Invalid project key format"
    ELSE IF action = "write" /\ Len(tasks) = 0 THEN "Missing project data"
    ELSE IF action = "write" /\ Len(ValidateTasks(tasks, now)) > 0 THEN "Invalid task data"
    ELSE ""

\* execute is called: it returns a failure at once or goes on to
\* readJiraProject or writeJiraIssues, both of which begin with the GET of
\* the project.
JE_Execute ==
    /\ je.pc = "idle"
    /\ \E configOk \in BOOLEAN, keyOk \in BOOLEAN, action \in {"read", "write"},
          tasks \in TaskLists, now \in Nows :
          LET err == ExecuteChecks(configOk, keyOk, action, tasks, now)
              f == [JEIdle EXCEPT !.action = action, !.tasks = tasks, !.now = now]
          IN  je' = IF err # ""
                    THEN [f EXCEPT !.pc = "done", !.result = Result(FALSE, err, <<>>)]
                    ELSE [f EXCEPT !.pc = "project"]
    /\ UNCHANGED nonJeVars

\* lines 144-156 with readJiraProject 271-296 and writeJiraIssues 429-455:
\* the first remote call of the operation.
JE_GetProject ==
    /\ je.pc = "project"
    /\ \E a \in {"ok", "404", "403", "rejected", "throw"} :
          je' = CASE a = "ok" -> [je EXCEPT !.pc = "running", !.calls = @ + 1]
                  [] a = "404" -> [je EXCEPT !.pc = "done", !.calls = @ + 1,
                                             !.result = Result(FALSE, "Project not found", <<>>)]
                  [] a = "403" -> [je EXCEPT !.pc = "done", !.calls = @ + 1,
                                             !.result = Result(FALSE, "Access denied", <<>>)]
                  [] OTHER -> [je EXCEPT !.pc = "done", !.calls = @ + 1,
                                         !.result = Result(FALSE, "Failed to fetch project", <<>>)]
    /\ UNCHANGED nonJeVars

JiraExecuteNext ==
    \/ JE_Execute
    \/ JE_GetProject

-----------------------------------------------------------------------------

ClientInit ==
    /\ fn = "none"
    /\ retries = 0
    /\ options = "none"
    /\ i = 0
    /\ attempt = 0
    /\ lastError = "null"
    /\ events = <<>>
    /\ outcome = Pending

FlowInit ==
    /\ wf = "none"
    /\ step = "none"
    /\ pc = "none"
    /\ runStatus = "running"
    /\ failure = NoFailure
    /\ inputData = [hasSource |-> FALSE, hasAssignee |-> FALSE]
    /\ existingData = "empty"
    /\ readFailed = FALSE
    /\ enhancedTasksText = <<>>
    /\ enhancedTasks = NoValue
    /\ calls = <<>>
    /\ remoteLeft = 0
    /\ li = 0 /\ ci = 0 /\ ki = 0
    /\ labelMap = <<>>
    /\ probeFailed = {}
    /\ projectCapabilities = NoCapabilities
    /\ createdIssues = <<>>
    /\ storyKeys = <<>>
    /\ storyPayloads = <<>>
    /\ boardId = 0
    /\ warnings = <<>>
    /\ nextKey = 1

ToolInit ==
    /\ wj = WJIdle
    /\ wt = WTIdle
    /\ cc = CCIdle
    /\ cr = CRIdle
    /\ pb = PBIdle
    /\ rj = RJIdle
    /\ je = JEIdle

Init == ClientInit /\ FlowInit /\ ToolInit

ClientNext ==
    \/ StartApiCall
    \/ ApiCallAttempt
    \/ StartJiraRequest
    \/ JiraRequestAttempt

SpecClient == Init /\ [][ClientNext]_vars

JiraWorkflowNext ==
    \/ StartJiraWorkflow
    \/ VP_GetProject
    \/ VP_GetCreateMeta
    \/ REP_NoSource
    \/ REP_GetSourceProject
    \/ REP_GetSourceCreateMeta
    \/ REP_Search
    \/ CJI_GetCreateMeta
    \/ CJI_GetAssignee
    \/ CJI_CreateEpic
    \/ CJI_CreateStory
    \/ CJI_CreateSubtask
    \/ CJI_GetBoard
    \/ CJI_CreateSprint
    \/ CJI_AddToSprint

FlowNext ==
    \/ EnhanceTasks
    \/ TrelloWorkflowNext
    \/ JiraWorkflowNext

SpecFlow == Init /\ [][FlowNext]_vars

SpecJiraWrite == Init /\ [][JiraWriteNext]_vars

SpecTrelloWrite == Init /\ [][TrelloWriteNext]_vars

SpecConfig == Init /\ [][ConfigNext]_vars

SpecConcurrent == Init /\ [][ConcurrentNext]_vars

SpecProbe == Init /\ [][ProbeNext]_vars

SpecJiraRead == Init /\ [][JiraReadNext]_vars

SpecJiraExecute == Init /\ [][JiraExecuteNext]_vars

\* Every awaited request of readJiraProject is answered or fails: fetch is
\* bounded by the 30 s abort signal of makeJiraRequest (line 236).
SpecJiraReadLive == SpecJiraRead /\ WF_vars(JiraReadNext)

-----------------------------------------------------------------------------
(* Observations on a client call's event log *)

FetchPos == {k \in 1..Len(events) : events[k].e = "fetch"}

\* The 1-based number of the attempt whose fetch is logged at position k.
AttemptNo(k) == Cardinality({j \in FetchPos : j <= k})

NumFetches == Cardinality(FetchPos)

CallEnded == fn # "none" /\ outcome.kind # "pending"

AllFetches(s) == \A k \in FetchPos : events[k].status = s

SleepFollows(k) == k + 1 <= Len(events) /\ events[k + 1].e = "sleep"

\* C5: K answers 429 then a success, K below the budget: the call returns
\* that successful response; every attempt of the budget answered 429: the
\* call fails (throws) and never returns normally.
C5_RateLimitBudget ==
    CallEnded =>
        /\ (/\ NumFetches >= 1
            /\ \A k \in FetchPos : AttemptNo(k) < NumFetches => events[k].status = 429
            /\ \E k \in FetchPos : AttemptNo(k) = NumFetches /\ events[k].status = 200)
           => (outcome.kind = "return" /\ outcome.status = 200)
        /\ (NumFetches = retries /\ AllFetches(429)) => outcome.kind = "throw"

\* C6: after a 429 that is retried, the client sleeps at least Retry-After
\* seconds when the header is present, and BaseDelayMs * 2^(loop counter)
\* when it is absent.
C6_RetryAfterHonoured ==
    \A k \in FetchPos :
        (events[k].status = 429 /\ \E j \in FetchPos : j > k) =>
            /\ SleepFollows(k)
            /\ events[k].retryAfter # NoHeader
                   => events[k + 1].ms >= events[k].retryAfter * 1000
            /\ events[k].retryAfter = NoHeader
                   => events[k + 1].ms =
                        BaseDelayMs * Pow2(IF fn = "makeApiCall" THEN AttemptNo(k) - 1
                                           ELSE AttemptNo(k))

IsRejection(s) == s # NetErr /\ s # 429 /\ ~(s >= 200 /\ s <= 299)

\* C7: a non-2xx, non-429 response ends the call at once: it is the first
\* and last thing the client does (no sleep, no further fetch), and the
\* caller receives the rejection with its status.
C7_RejectionNotRetried ==
    \A k \in FetchPos :
        IsRejection(events[k].status) =>
            /\ k = Len(events)
            /\ outcome.kind # "pending"
            /\ outcome.status = events[k].status

\* C8: a fetch that fails with a network error or timeout while attempts
\* remain is followed by a backoff sleep that doubles from one attempt to the
\* next, and by another attempt; when every attempt of the budget fails this
\* way the call throws to its caller.
C8_NetworkBackoff ==
    /\ \A k \in FetchPos :
          (events[k].status = NetErr /\ AttemptNo(k) < retries) =>
              /\ SleepFollows(k)
              /\ events[k + 1].ms =
                    BaseDelayMs * Pow2(IF fn = "makeApiCall" THEN AttemptNo(k) - 1
                                       ELSE AttemptNo(k))
              /\ \A j \in FetchPos :
                    (j > k /\ events[j].status = NetErr /\ AttemptNo(j) = AttemptNo(k) + 1
                        /\ SleepFollows(j))
                    => events[j + 1].ms = 2 * events[k + 1].ms
              /\ (k + 1 = Len(events) => outcome.kind = "pending")
    /\ (fn # "none" /\ NumFetches = retries /\ AllFetches(NetErr))
          => (outcome.kind = "throw" /\ outcome.value = "NetworkError")

\* C8 witness: a budget of three, all three attempts failed on the network.
C8_Witness ==
    /\ retries = 3 /\ NumFetches = 3 /\ AllFetches(NetErr)
    /\ outcome.kind = "throw"
    /\ Len(events) = 5

-----------------------------------------------------------------------------
(* Observations on a workflow run *)

WriteCalls == {k \in 1..Len(calls) : calls[k].m \in {"POST", "PUT"}}

HasTok(text, t) == \E k \in 1..Len(text) : text[k].tok = t

\* enhanceTasks has consumed the generator's text.
TextConsumed ==
    \/ failure = Fail("enhanceTasks", "validation")
    \/ step \in {"createTrelloBoard", "createJiraIssues", "end"}

RejectedWithoutWrites ==
    /\ runStatus = "failed"
    /\ failure = Fail("enhanceTasks", "validation")
    /\ WriteCalls = {}

\* C1: in both workflows, a generator text that after the one fence-strip
\* and trim pass does not decode or fails the structural check (in
\* particular any text with prose around the value, an unknown language tag
\* or a truncated object) ends the run in failure, and the run has issued no
\* POST or PUT.
C1_MalformedOutputNoWrites ==
    TextConsumed =>
        /\ ~StructureOk(JsonParse(CleanResponse(enhancedTasksText)))
              => RejectedWithoutWrites
        /\ (\E t \in {"prose", "trunc", "lang"} : HasTok(enhancedTasksText, t))
              => RejectedWithoutWrites
        /\ ~HasTok(enhancedTasksText, "value") => RejectedWithoutWrites

\* C1 witness: the Jira workflow, after its read-only calls, rejects a text
\* that has prose before a well-formed plan.
C1_Witness ==
    /\ wf = "jira"
    /\ RejectedWithoutWrites
    /\ Len(calls) >= 3
    /\ HasTok(enhancedTasksText, "prose")
    /\ \E k \in 1..Len(enhancedTasksText) :
          /\ enhancedTasksText[k].tok = "value"
          /\ StructureOk(enhancedTasksText[k].val)

TopLevelCreated ==
    \E k \in 1..Len(calls) :
        /\ calls[k].step \in {"createTrelloBoard", "createJiraIssues"}
        /\ calls[k].m = "POST"
        /\ calls[k].what \in {"board", "epic"}
        /\ calls[k].ok

LaterCreations ==
    {"story", "subtask", "label", "list", "card", "checklist", "checkItem"}

\* A creation of a later object, issued after the epic or board was created,
\* was refused.
LaterCreationFailed ==
    \E k \in 1..Len(calls) :
        /\ calls[k].step \in {"createTrelloBoard", "createJiraIssues"}
        /\ calls[k].m = "POST"
        /\ calls[k].what \in LaterCreations
        /\ ~calls[k].ok

\* C2: in createJiraIssues and createTrelloBoard, once the epic or board has
\* been created, a later creation (story, subtask, label, list, card,
\* checklist, checklist item) that fails does not make the run end in
\* failure.
C2_LaterFailureIsWarning ==
    (TopLevelCreated /\ LaterCreationFailed) => runStatus # "failed"

LastCall == calls[Len(calls)]

\* The probe of the target project that a call of the Jira workflow makes.
ProbeOf(c) ==
    IF c.step = "validateProject" /\ c.what = "project" THEN "projectLookup"
    ELSE IF c.step = "validateProject" /\ c.what = "createmeta" THEN "validateMeta"
    ELSE IF c.step = "createJiraIssues" /\ c.what = "createmeta" THEN "capsMeta"
    ELSE IF c.step = "createJiraIssues" /\ c.what = "board" THEN "boardLookup"
    ELSE "none"

\* The run ended in failure at the failing probe p.
AbortedBy(p) ==
    /\ runStatus = "failed"
    /\ calls # <<>>
    /\ failure.step = LastCall.step
    /\ ProbeOf(LastCall) = p
    /\ p \in probeFailed

EpicAttempted ==
    \E k \in 1..Len(calls) : calls[k].m = "POST" /\ calls[k].what = "epic"

ReadSteps == {"readExistingBoard", "readExistingProject"}

\* C10: a failed read of the optional source board or project leaves the
\* existing-state summary empty, and the run goes on to generation: it never
\* fails in the read step.
C10_ReadFailureDegrades ==
    readFailed =>
        /\ existingData = "empty"
        /\ step \notin ReadSteps
        /\ failure.step \notin ReadSteps

\* C10 witness: the Trello workflow succeeded after its read of the source
\* board had failed part-way.
C10_Witness ==
    /\ wf = "trello"
    /\ readFailed
    /\ Len(calls) >= 3 /\ calls[2].step = "readExistingBoard"
    /\ runStatus = "success"

-----------------------------------------------------------------------------
(* Observations on the write operations of the tools *)

\* C3: once the project has been fetched, writeJiraIssues returns
\* success=false exactly when no issue was created; every epic, issue,
\* sprint, sprint assignment or link that failed has its warning, and a
\* successful result carries the warnings.
C3_FailureIffNothingCreated ==
    /\ \A x \in wj.failures : \E k \in 1..Len(wj.warnings) : wj.warnings[k] = x
    /\ (wj.result.done /\ wj.projectFetched) =>
          /\ (~wj.result.success) <=> (wj.createdIssues = <<>>)
          /\ wj.result.success => wj.result.warnings = wj.warnings

\* C3 witness: a successful result after an issue was created, a later
\* issue failed, and a link or sprint operation failed too.
C3_Witness ==
    /\ wj.result.done /\ wj.result.success
    /\ Len(wj.createdIssues) >= 1
    /\ \E x \in wj.failures : x.what = "issue"
    /\ \E x \in wj.failures : x.what \in {"sprint", "addToSprint", "link"}

CreatedObjects ==
    {k \in 1..Len(wt.remote) :
        wt.remote[k] \in {"board", "label", "list", "card", "checklist"}}

\* C4: writeTrelloBoard returns success=false exactly when the run created
\* no board, label, list, card or checklist.
C4_FailureIffNothingCreated ==
    wt.result.done => ((~wt.result.success) <=> (CreatedObjects = {}))

-----------------------------------------------------------------------------
(* Observations on the plan that enhanceTasks accepted *)

\* enhanceTasks returned: the run is in its write step or beyond.
PlanAccepted == step \in {"createTrelloBoard", "createJiraIssues", "end"}

WorkItems == IF wf = "trello" THEN Flatten(enhancedTasks.plan) ELSE enhancedTasks.plan

ItemComplete(item) == "missing" \notin DOMAIN item

\* C11: a plan that enhanceTasks accepts has a non-empty title, a present
\* and non-empty sequence of groupings, and work items that all carry
\* title, description and priority.
C11_OnlyCompletePlansAccepted ==
    PlanAccepted =>
        /\ enhancedTasks.title = "ok"
        /\ enhancedTasks.groups = "array"
        /\ Len(enhancedTasks.plan) >= 1
        /\ \A k \in 1..Len(WorkItems) : ItemComplete(WorkItems[k])

WriteSteps == {"createTrelloBoard", "createJiraIssues"}

\* The run ended in failure in a step that precedes the write step.
FailedBeforeWrite == runStatus = "failed" /\ failure.step \notin WriteSteps

-----------------------------------------------------------------------------
(* Observations on the credential checks *)

\* The credentials an entry point reads from the environment.
Credentials ==
    IF cc.entry \in {"jiraTool", "jiraRequest"} THEN {"email", "apiToken"}
    ELSE {"apiKey", "token"}

CredentialsBad == \E f \in Credentials : cc.env[f] # "valid"

\* C13: an entry point that finds a credential missing or malformed ends
\* with a configuration error and has issued no remote call.
C13_BadCredentialsNoCall ==
    (cc.pc = "done" /\ CredentialsBad) =>
        (cc.error = "configuration" /\ cc.remoteCalls = 0)

-----------------------------------------------------------------------------
(* Observations on the labels of writeTrelloBoard *)

LabelPosts(name) ==
    {k \in 1..Len(wt.posts) : wt.posts[k].what = "label" /\ wt.posts[k].name = name}

StoredLabelIds == {e.key : e \in wt.labelMap}

\* C14: in one run of writeTrelloBoard every label name is posted at most
\* once, and a card refers to its labels by the identifiers stored for them.
C14_LabelCreatedOnce ==
    /\ \A k \in 1..Len(wt.posts) :
          wt.posts[k].what = "label" => Cardinality(LabelPosts(wt.posts[k].name)) <= 1
    /\ \A k \in 1..Len(wt.posts) :
          wt.posts[k].what = "card" => wt.posts[k].idLabels \subseteq StoredLabelIds

-----------------------------------------------------------------------------
(* Observations on the capability degradations of createJiraIssues *)

WarningCount(w) == Cardinality({k \in 1..Len(warnings) : warnings[k] = w})

\* createJiraIssues has probed the project and is posting or has finished.
Probed == wf = "jira" /\ step \in {"createJiraIssues", "end"} /\ pc # "createmeta"

\* C15: with supportsSubtasks = false, the description of every story that
\* is posted carries all the subtask entries of that story, and a finished
\* run has the subtask warning.
C15_SubtasksKeptAsText ==
    (Probed /\ ~projectCapabilities.supportsSubtasks) =>
        /\ \A l \in 1..Len(storyPayloads) :
              storyPayloads[l].subtasksInDescription = ThePlan[l].subtasks
        /\ runStatus = "success" => WarningCount("subtasks") >= 1

\* C16: with supportsPriority = false, no story payload has a priority
\* field, and a finished run has exactly one priority warning.
C16_PriorityOmitted ==
    (Probed /\ ~projectCapabilities.supportsPriority) =>
        /\ \A l \in 1..Len(storyPayloads) : ~storyPayloads[l].priority
        /\ runStatus = "success" => WarningCount("priority") = 1

\* C16 witness: a run that posted two stories without priority and finished.
C16_Witness ==
    /\ Probed /\ ~projectCapabilities.supportsPriority
    /\ "capsMeta" \notin probeFailed
    /\ Len(storyPayloads) = 2
    /\ runStatus = "success"

-----------------------------------------------------------------------------
(* Observations on the issue links of writeJiraIssues *)

\* writeJiraIssues went through its link loop and returned.
LinkStageDone ==
    wj.result.done /\ (wj.result.success \/ wj.result.error = "No issues created")

\* The blocking tasks whose blocks value is neither the title of an issue
\* the run created nor a key of the target project.
UnresolvedBlocks ==
    {k \in 1..Len(BlockingTasks(wj.tasks)) :
        ResolveRef(wj, BlockingTasks(wj.tasks)[k].blocks) = ""}

InSeq(x, seq) == \E k \in 1..Len(seq) : seq[k] = x

\* C17: for a task whose blocks value is unresolved, no link call is issued,
\* a warning names the value, and the run reports success.
C17_UnresolvedBlocksSucceeds ==
    LinkStageDone =>
        \A k \in UnresolvedBlocks :
            LET t == BlockingTasks(wj.tasks)[k] IN
            /\ t.title \notin wj.linkCalls
            /\ InSeq(Warn("noInwardKey", t.blocks), wj.warnings)
            /\ wj.result.success

\* C17, amended: no link call is issued and the warning is recorded; the
\* run reports success exactly when it created an issue, and then returns
\* the warning.
C17_UnresolvedBlocksDegrade ==
    LinkStageDone =>
        \A k \in UnresolvedBlocks :
            LET t == BlockingTasks(wj.tasks)[k] IN
            /\ t.title \notin wj.linkCalls
            /\ InSeq(Warn("noInwardKey", t.blocks), wj.warnings)
            /\ wj.result.success <=> Len(wj.createdIssues) > 0
            /\ wj.result.success =>
                  InSeq(Warn("noInwardKey", t.blocks), wj.result.warnings)

\* C17 witness: a successful run with an unresolved blocks value.
C17_Witness ==
    /\ LinkStageDone /\ wj.result.success
    /\ \E k \in UnresolvedBlocks : BlockingTasks(wj.tasks)[k].blocks = "S0"
    /\ InSeq(Warn("noInwardKey", "S0"), wj.result.warnings)

-----------------------------------------------------------------------------
(* Observations on the created-object ledgers of the Jira write paths *)

\* The warnings of writeJiraIssues that record an issue left out.
OmissionWarnings(w) ==
    {k \in 1..Len(w) : w[k].what \in {"epic", "issue"}}

Omitted(t, w) == InSeq(Warn("epic", t.title), w) \/ InSeq(Warn("issue", t.title), w)

InLedger(t) ==
    /\ MapGet(wj.issueKeyMap, t.title) # ""
    /\ InSeq(MapGet(wj.issueKeyMap, t.title), wj.createdIssues)

\* C18: a successful Jira write returns a ledger with one entry for the
\* epic and one for each story (createJiraIssues), and with one entry for
\* each task that has no warning recording its omission (writeJiraIssues).
C18_LedgerCoversPlan ==
    /\ (wf = "jira" /\ runStatus = "success") =>
           Len(createdIssues) >= 1 + Len(ThePlan)
    /\ (wj.result.done /\ wj.result.success) =>
           /\ Len(wj.createdIssues) + Cardinality(OmissionWarnings(wj.result.warnings))
                 >= Len(wj.tasks)
           /\ \A k \in 1..Len(wj.tasks) :
                 InLedger(wj.tasks[k]) \/ Omitted(wj.tasks[k], wj.result.warnings)

\* C18 witness: a successful write of three tasks, one of them left out
\* with a warning.
C18_Witness ==
    /\ wj.result.done /\ wj.result.success
    /\ Len(wj.tasks) = 3
    /\ Len(wj.createdIssues) = 2
    /\ Cardinality(OmissionWarnings(wj.result.warnings)) = 1

\* The keys of the issues the backend created in this run.
CreatedKeys == {e.key : e \in wj.issueKeyMap}

\* C19: the ledger a successful writeJiraIssues returns has an entry for
\* every issue and every sprint the run created, and no other entry.
C19_LedgerIsExact ==
    (wj.result.done /\ wj.result.success) =>
        /\ \A key \in CreatedKeys : InSeq(key, wj.createdIssues)
        /\ \A name \in wj.sprintMap : InSeq(name, wj.createdIssues)
        /\ \A k \in 1..Len(wj.createdIssues) :
              wj.createdIssues[k] \in CreatedKeys \cup wj.sprintMap

-----------------------------------------------------------------------------
(* Observations on the checklist round trip of the Trello tool *)

PlannedCard(title) ==
    LET ls == wt.boardData.lists
        l == CHOOSE l \in 1..Len(ls) : \E c \in 1..Len(ls[l].cards) : ls[l].cards[c].title = title
        c == CHOOSE c \in 1..Len(ls[l].cards) : ls[l].cards[c].title = title
    IN  ls[l].cards[c]

\* C20: a card written with 5 checklist entries reads back with exactly
\* those 5 items, same names, same order.
C20_ChecklistRoundTrip ==
    (wt.readBack.answer = "value" /\ Len(PlannedCard(wt.readBack.card).checklist) = 5) =>
        wt.readBack.items = PlannedCard(wt.readBack.card).checklist

-----------------------------------------------------------------------------
(* Observations on the duplicate names of a Trello write request *)

ListNames == [k \in 1..Len(wt.boardData.lists) |-> wt.boardData.lists[k].name]

\* Two lists of the request have names equal ignoring case.
HasDuplicateLists ==
    \E j, k \in 1..Len(ListNames) :
        j < k /\ ToLowerCase(ListNames[j]) = ToLowerCase(ListNames[k])

\* C21: a write request with duplicate list names is not rejected by the
\* tool, and a successful result carries the warning listing the duplicates.
C21_DuplicateListsWarned ==
    (wt.pc # "idle" /\ Len(ListNames) >= 1 /\ HasDuplicateLists) =>
        /\ wt.result.error # "Empty board data"
        /\ wt.pc = "done" => wt.result.done
        /\ (wt.result.done /\ wt.result.success) =>
              InSeq(Warn("duplicateLists", DuplicateNames(ListNames)), wt.result.warnings)

\* C21 witness: the write of lists "A" and "a" succeeded.
C21_Witness ==
    /\ HasDuplicateLists
    /\ wt.result.done /\ wt.result.success
    /\ "list" \in {wt.remote[k] : k \in 1..Len(wt.remote)}
    /\ wt.result.warnings = <<Warn("duplicateLists", <<"a">>)>>

-----------------------------------------------------------------------------
(* Observations on the results of the two tools *)

\* The operation is over: it returned, or an exception left it.
Ended(f) == f.pc \in {"done", "raised"}

TaggedResult(f) ==
    /\ f.pc = "done"
    /\ f.result.done
    /\ ~f.result.success => f.result.error # ""

-----------------------------------------------------------------------------
(* Observations on the order of the workflow steps *)

\* enhanceTasks has returned a plan that passed its check.
PlanValidated == enhancedTasks # NoValue

\* The position of a step in the chain of its workflow.
StepRank(s) ==
    CASE s = "validateProject" -> 0
      [] s \in ReadSteps -> 1
      [] s = "enhanceTasks" -> 2
      [] s \in WriteSteps -> 3
      [] OTHER -> 4

\* The calls are logged in the order of the steps, and no step behind the
\* current one has still to make a call.
CallsFollowSteps ==
    /\ \A j, k \in 1..Len(calls) :
          j < k => StepRank(calls[j].step) <= StepRank(calls[k].step)
    /\ \A k \in 1..Len(calls) : StepRank(calls[k].step) <= StepRank(step)

-----------------------------------------------------------------------------
(* Observations on the order of the Trello creations *)

\* The creation call writeTrelloBoard is about to issue, and the object the
\* call needs the identifier of.
NextCreation ==
    CASE wt.pc = "lists" -> [what |-> "list", parent |-> wt.board]
      [] wt.pc = "cards" -> [what |-> "card", parent |-> wt.list]
      [] wt.pc = "checklist" -> [what |-> "checklist", parent |-> wt.card]
      [] wt.pc = "items" -> [what |-> "checkItem", parent |-> wt.checklist]
      [] OTHER -> [what |-> "none", parent |-> "value"]

\* The call of createTrelloBoard that call k depends on: the latest earlier
\* creation of the parent kind.
ParentKind(w) ==
    CASE w = "card" -> "list" [] w = "checklist" -> "card" [] w = "checkItem" -> "checklist"
      [] OTHER -> "none"

ParentCalls(k) ==
    {j \in 1..(k - 1) : calls[j].step = "createTrelloBoard" /\ calls[j].m = "POST"
                         /\ calls[j].what = ParentKind(calls[k].what)}

\* C24: a card, checklist or checklist item is posted only when the call
\* that created its parent returned an object; after a parent creation
\* without an object no child creation is issued.
C24_ChildrenAfterParents ==
    /\ NextCreation.parent = "value"
    /\ \A k \in 1..Len(calls) :
          (calls[k].step = "createTrelloBoard" /\ ParentKind(calls[k].what) # "none") =>
              /\ ParentCalls(k) # {}
              /\ \A j \in ParentCalls(k) : calls[j].ok
    /\ \A k \in 1..Len(calls) :
          (calls[k].step = "createTrelloBoard" /\ ~calls[k].ok) => k = Len(calls)

\* C24 witness: writeTrelloBoard got no list from its list creation, skipped
\* the cards of that list, and returned.
C24_Witness ==
    /\ wt.pc = "done" /\ wt.result.success
    /\ wt.list = "undefined"
    /\ \E l \in 1..Len(wt.boardData.lists) : Len(wt.boardData.lists[l].cards) > 0
    /\ \A k \in 1..Len(wt.posts) : wt.posts[k].what # "card"

-----------------------------------------------------------------------------
(* Observations on the order of the Jira creations *)

EpicPosts == {k \in 1..Len(wj.issuePosts) : wj.issuePosts[k].type = "Epic"}

ChildPosts == {k \in 1..Len(wj.issuePosts) : wj.issuePosts[k].type # "Epic"}

KeysCreatedBefore(k) ==
    {wj.createdIssues[n] : n \in 1..wj.issuePosts[k].createdBefore}

TaskTitled(title) == CHOOSE t \in {wj.tasks[n] : n \in 1..Len(wj.tasks)} : t.title = title

\* The calls of createJiraIssues that create issues of kind w.
FlowPosts(w) ==
    {k \in 1..Len(calls) : calls[k].step = "createJiraIssues" /\ calls[k].m = "POST"
                            /\ calls[k].what = w}

\* C25: in writeJiraIssues every epic is posted before any other issue, the
\* epic reference a child carries is a key the run got from an earlier
\* creation or a supplied key of the target project, and a child whose epic
\* is unresolved is posted without reference and with a warning; in
\* createJiraIssues the epic is created before the stories and a story
\* before its subtasks.
C25_ParentsBeforeChildren ==
    /\ \A c \in ChildPosts :
          /\ \A e \in EpicPosts : e < c
          /\ Cardinality(EpicPosts) = Len(EpicTasks(wj.tasks))
          /\ LET post == wj.issuePosts[c]
                 t == TaskTitled(post.title)
             IN  /\ post.epic # "" =>
                       \/ post.epic \in KeysCreatedBefore(c)
                       \/ LooksLikeKey(t.epic) /\ post.epic = t.epic
                 /\ (t.epic # "" /\ MapGet(wj.issueKeyMap, t.epic) = "" /\ ~LooksLikeKey(t.epic)) =>
                       /\ post.epic = ""
                       /\ InSeq(Warn("epicNotFound", t.title), wj.warnings)
    /\ \A s \in FlowPosts("story") :
          \E e \in FlowPosts("epic") : e < s /\ calls[e].ok
    /\ \A u \in FlowPosts("subtask") :
          \E s \in FlowPosts("story") : s < u /\ calls[s].ok

\* C25 witness: a story was posted with the key of the epic created before
\* it, and a later story with a supplied key.
C25_Witness ==
    /\ wj.result.done /\ wj.result.success
    /\ \E c \in ChildPosts : wj.issuePosts[c].epic = "PROJ-1" /\ wj.issuePosts[c].createdBefore >= 1
    /\ \E c \in ChildPosts : wj.issuePosts[c].epic = "PROJ-9"

\* C26: when writeJiraIssues issues a link call, it has posted every task
\* of the request, epics first, and both ends of the link are issue keys.
C26_LinksAfterAllIssues ==
    \A title \in wj.linkCalls :
        LET t == TaskTitled(title) IN
        /\ Len(wj.issuePosts) = Len(wj.tasks)
        /\ \A c \in ChildPosts : \A e \in EpicPosts : e < c
        /\ MapGet(wj.issueKeyMap, t.title) # ""
        /\ ResolveRef(wj, t.blocks) # ""

\* C26 witness: a link call was issued for S1, which blocks S2.
C26_Witness ==
    /\ wj.pc = "links" /\ wj.sub = "post"
    /\ "S1" \in wj.linkCalls
    /\ Len(wj.issuePosts) = 3

-----------------------------------------------------------------------------
(* Observations on the failures writeTrelloBoard tolerates *)

-----------------------------------------------------------------------------
(* Observations on the archiving of lists *)

\* The remote operations of writeTrelloBoard that close a list, and those
\* that create an object below the board.
ArchivedAt == {k \in 1..Len(wt.remote) : wt.remote[k] = "archived"}

CreatedBelowBoardAt ==
    {k \in 1..Len(wt.remote) : wt.remote[k] \in {"label", "list", "card", "checklist", "checkItem"}}

\* The calls of createTrelloBoard that close a list, and its creations
\* below the board.
ArchiveCalls == {k \in 1..Len(calls) : calls[k].step = "createTrelloBoard" /\ calls[k].m = "PUT"}

CreationCalls ==
    {k \in 1..Len(calls) : calls[k].step = "createTrelloBoard" /\ calls[k].m = "POST"
                            /\ calls[k].what \in {"label", "list", "card", "checklist", "checkItem"}}

\* C28: the only closing calls are the list archivings, they are limited
\* to the lists the board answered with, and all of them precede every
\* creation of a label, list, card or checklist of the run; this also holds
\* in a run that failed later.
C28_ArchiveBeforeCreations ==
    /\ \A a \in ArchivedAt : \A c \in CreatedBelowBoardAt : a < c
    /\ Cardinality(ArchivedAt) <= MaxDefaultLists
    /\ \A a \in ArchiveCalls :
          /\ calls[a].what = "archive"
          /\ \A c \in CreationCalls : a < c
    /\ Cardinality(ArchiveCalls) <= MaxDefaultLists
    /\ \A k \in 1..Len(calls) : calls[k].m \in {"GET", "POST", "PUT"}

\* C28 witness: a default list was archived, a list was created, and the
\* run failed at a later creation.
C28_Witness ==
    /\ wf = "trello" /\ runStatus = "failed"
    /\ \E a \in ArchiveCalls : calls[a].ok
    /\ \E c \in CreationCalls : calls[c].what = "list" /\ calls[c].ok
    /\ ~LastCall.ok /\ LastCall.what = "card"

-----------------------------------------------------------------------------
(* Observations on concurrent runs *)

\* The issues the backend created for the requests of run r.
IssuedTo(r) == {n \in 1..Len(cr.issued) : cr.issued[n] = r}

SeqSet(q) == {q[k] : k \in 1..Len(q)}

-----------------------------------------------------------------------------
(* Observations on the retries of creation requests *)

FetchesAt == {k \in 1..Len(events) : events[k].e = "fetch"}

\* The number of the attempt that made fetch k.
AttemptOf(k) == Cardinality({j \in FetchesAt : j <= k})

\* C30: a POST whose attempt ended in a network error while attempts
\* remained is sent again: the call is still in its loop or a later fetch
\* follows, and the call has not ended on that attempt.
C30_CreationIsRetried ==
    (fn # "none" /\ options = "POST") =>
        \A k \in FetchesAt :
            (events[k].status = NetErr /\ AttemptOf(k) < retries) =>
                \/ \E j \in FetchesAt : j > k
                \/ outcome.kind = "pending"

\* C30 witness: a POST through makeApiCall was sent, lost, sent again and
\* answered 200: the backend received the creation twice.
C30_Witness ==
    /\ fn = "makeApiCall" /\ options = "POST"
    /\ Cardinality(FetchesAt) = 2
    /\ events[1].status = NetErr
    /\ outcome = Returned("json", 200)

-----------------------------------------------------------------------------
(* Claim C31: idempotence of the capability probe *)

-----------------------------------------------------------------------------
(* Claim C32: a list without cards *)

\* The lists of the request that have no cards.
EmptyLists == {k \in 1..Len(wt.boardData.lists) : Len(wt.boardData.lists[k].cards) = 0}

ListsOnRemote == Cardinality({k \in 1..Len(wt.remote) : wt.remote[k] = "list"})

\* C32: a Trello write whose request has a list without cards is accepted,
\* the list is created, and the result returned to the caller carries a
\* warning that flags the empty list.
C32_EmptyListFlagged ==
    (/\ wt.pc = "done"
     /\ wt.result.success
     /\ EmptyLists # {}
     /\ ListsOnRemote = Len(wt.boardData.lists))
        => \E k \in 1..Len(wt.result.warnings) : wt.result.warnings[k].what = "emptyList"

-----------------------------------------------------------------------------
(* Claim C33: the counts of writeTrelloBoard's result *)

\* The objects of kind k the backend created in this run.
OnRemote(k) == Cardinality({j \in 1..Len(wt.remote) : wt.remote[j] = k})

\* C33: the counts a successful writeTrelloBoard returns (listsCreated,
\* cardsCreated, labelsCreated) are the numbers of list, card and label
\* creation calls of the run that returned a created object, whatever the
\* backend answered, rate-limit exhaustion included.
C33_CountsAreExact ==
    (wt.pc = "done" /\ wt.result.success)
        => /\ wt.listsCreated = OnRemote("list")
           /\ wt.totalCards = OnRemote("card")
           /\ wt.labelsCreated = OnRemote("label")

\* The part of C33 that the label counter satisfies: labelsCreated++ comes
\* after createdLabel.id, which throws when no label came back.
C33_LabelCountExact ==
    (wt.pc = "done" /\ wt.result.success) => wt.labelsCreated = OnRemote("label")

-----------------------------------------------------------------------------
(* Claim C34: the accounting of writeJiraIssues' creation phases *)

\* The epic loop and the loop over the other issues are over.
IssuePhasesOver == wj.pc = "links" \/ (wj.pc = "done" /\ wj.projectFetched)

CreationWarned(title) ==
    \E k \in 1..Len(wj.warnings) :
        wj.warnings[k].what \in {"epic", "issue"} /\ wj.warnings[k].about = title

Occurrences(x, seq) == Cardinality({k \in 1..Len(seq) : seq[k] = x})

\* C34: when the creation phases of writeJiraIssues are over, every task of
\* the request is accounted for exactly once: its key is in createdIssues
\* and issueKeyMap maps its title to that key, or its title is in
\* failedIssues, never both and never neither; every failed task has a
\* warning.
C34_EveryTaskAccounted ==
    IssuePhasesOver =>
        /\ \A k \in 1..Len(wj.tasks) :
              LET t == wj.tasks[k]
                  key == MapGet(wj.issueKeyMap, t.title)
                  created == key # "" /\ Occurrences(key, wj.createdIssues) = 1
                  failed == Occurrences(t.title, wj.failedIssues) = 1
              IN  /\ created # failed
                  /\ key = "" => Occurrences(t.title, wj.failedIssues) = 1
                  /\ key # "" => Occurrences(t.title, wj.failedIssues) = 0
                  /\ failed => CreationWarned(t.title)
        /\ Len(wj.createdIssues) + Len(wj.failedIssues) = Len(wj.tasks)

\* C34 witness: of three tasks the epic and one story were created and the
\* other story failed.
C34_Witness ==
    /\ IssuePhasesOver
    /\ Len(wj.tasks) = 3
    /\ Len(wj.createdIssues) = 2
    /\ wj.failedIssues = <<"S1">>
    /\ MapGet(wj.issueKeyMap, "E") = "PROJ-1"
    /\ MapGet(wj.issueKeyMap, "S2") = "PROJ-2"

-----------------------------------------------------------------------------
(* Claim C35: the attempts and sleeps of one client call *)

\* The call slept after the fetch of its last attempt.
SleptAfterFinalAttempt ==
    /\ Len(events) > 0
    /\ events[Len(events)].e = "sleep"

\* The part of C35 about the number of attempts: a call never issues more
\* fetches than its retry budget, and an ended call issued at least one.
C35_AttemptsWithinBudget ==
    /\ NumFetches <= retries
    /\ CallEnded => NumFetches >= 1

\* C35: whatever the attempts are answered (success, 429, another status,
\* a network failure), a client call issues at most its retry budget of
\* fetches and, once it has ended, has not slept after its final attempt.
C35_NoSleepAfterFinalAttempt ==
    /\ NumFetches <= retries
    /\ CallEnded => ~SleptAfterFinalAttempt

-----------------------------------------------------------------------------
(* Claim C36: the issue pagination of readJiraProject *)

\* The issues of the answered pages 1..k, in the order they were fetched.
RECURSIVE FetchedIssues(_)
FetchedIssues(k) == IF k = 0 THEN <<>> ELSE FetchedIssues(k - 1) \o rj.pages[k].issues

\* The answer to the request of page p reports a total, and the page
\* reaches it.
ReachesTotal(p) == p.total >= 0 /\ p.startAt + MaxResults >= p.total

\* The search requests so far ask for startAt = 0, 100, 200, ... in this
\* order, so each offset at most once; a further page was asked for only
\* after an answered page that did not reach a reported total; the issues of every
\* answered page are in allIssues, and a returned project was read up to a
\* page that reaches the reported total.
PagesInOrder ==
    /\ \A k \in 1..Len(rj.pages) : rj.pages[k].startAt = (k - 1) * MaxResults
    /\ \A k \in 1..(Len(rj.pages) - 1) :
          rj.pages[k].ok /\ ~ReachesTotal(rj.pages[k])
    /\ rj.allIssues = FetchedIssues(Len(rj.pages))
    /\ rj.pc = "search" =>
          \A k \in 1..Len(rj.pages) : rj.pages[k].ok /\ ~ReachesTotal(rj.pages[k])
    /\ rj.result.success =>
          /\ Len(rj.pages) >= 1
          /\ rj.pages[Len(rj.pages)].ok
          /\ ReachesTotal(rj.pages[Len(rj.pages)])

PagesBoundedByTotals ==
    (\A k \in 1..Len(rj.pages) : rj.pages[k].total # NoTotal)
        => Len(rj.pages) <= (MaxTotal \div MaxResults) + 1

-----------------------------------------------------------------------------
(* Claim C37: the grouping of the fetched issues *)

InBacklog(key) == \E k \in 1..Len(rj.result.backlog) : rj.result.backlog[k] = key

\* The number of entries of issue key in sprint group g of the result.
EntriesIn(g, key) ==
    Cardinality({k \in 1..Len(rj.result.sprints[g].issues) :
                    rj.result.sprints[g].issues[k].key = key})

InSomeSprint(key) == \E g \in 1..Len(rj.result.sprints) : EntriesIn(g, key) >= 1

\* The ids of the sprint field of an issue.
SprintIdsOf(issue) == {issue.sprints[k].id : k \in 1..Len(issue.sprints)}

\* C37: every issue readJiraProject fetched appears in the project it
\* returns, in the backlog or in at least one sprint group; it is in the
\* backlog exactly when it is in no sprint group; an issue of several
\* sprints appears once in each of them.
C37_EveryIssueGrouped ==
    rj.result.success =>
        \A k \in 1..Len(rj.allIssues) :
            LET issue == rj.allIssues[k] IN
            /\ InBacklog(issue.key) \/ InSomeSprint(issue.key)
            /\ InBacklog(issue.key) <=> ~InSomeSprint(issue.key)
            /\ \A g \in 1..Len(rj.result.sprints) :
                  EntriesIn(g, issue.key) =
                      (IF rj.result.sprints[g].id \in SprintIdsOf(issue) THEN 1 ELSE 0)

\* The part of C37 that holds: no issue is both in the backlog and in a
\* sprint group, and an issue whose sprint entries all have an id and a
\* name appears once in the group of each of them, or in the backlog when
\* it has none.
C37_UsableEntriesGrouped ==
    rj.result.success =>
        \A k \in 1..Len(rj.allIssues) :
            LET issue == rj.allIssues[k] IN
            /\ ~(InBacklog(issue.key) /\ InSomeSprint(issue.key))
            /\ (\A e \in 1..Len(issue.sprints) : SprintEntryOk(issue.sprints[e])) =>
                  /\ InBacklog(issue.key) <=> Len(issue.sprints) = 0
                  /\ \A g \in 1..Len(rj.result.sprints) :
                        EntriesIn(g, issue.key) =
                            (IF rj.result.sprints[g].id \in SprintIdsOf(issue) THEN 1 ELSE 0)

-----------------------------------------------------------------------------
(* Claim C38: the connectivity test of the Trello tool *)

\* C38: when the connectivity test (GET /members/me) of a Trello operation
\* did not return a successful response, the operation has failed with a
\* connection error and goes on to no other remote call.
C38_NoConnectionNoCalls ==
    wt.connect \in {"undefined", "throw"} =>
        /\ wt.pc = "done"
        /\ ~wt.result.success
        /\ wt.result.error = "Failed to connect to Trello API"

\* The part of C38 that holds: a connectivity test that threw (a network
\* failure or a status other than 2xx and 429) ends the operation at once.
C38_ThrownTestEndsRun ==
    wt.connect = "throw" =>
        /\ wt.pc = "done"
        /\ ~wt.result.success
        /\ wt.result.error = "Failed to connect to Trello API"
        /\ wt.remote = <<>> /\ wt.posts = <<>>

-----------------------------------------------------------------------------
(* Claim C39: task validation of jiraTool.execute *)

DuplicateTitle(tasks) ==
    \E j, k \in 1..Len(tasks) : j < k /\ tasks[j].title = tasks[k].title

PastDueDate(tasks, now) ==
    \E k \in 1..Len(tasks) : tasks[k].dueDate >= 1 /\ Midnight(tasks[k].dueDate) < now

DanglingEpic(tasks) ==
    \E k \in 1..Len(tasks) :
        /\ tasks[k].epic # ""
        /\ ~IncludesDash(tasks[k].epic)
        /\ ~\E e \in 1..Len(tasks) : tasks[e].type = "Epic" /\ tasks[e].title = tasks[k].epic

\* C39: a Jira write request with two tasks of the same title, a due date
\* in the past, or an epic reference that is neither the title of an Epic
\* task of the request nor contains '-' has been rejected with
\* success = false without any remote call, so nothing was created.
C39_InvalidTasksRejected ==
    (/\ je.pc # "idle"
     /\ je.action = "write"
     /\ \/ DuplicateTitle(je.tasks)
        \/ PastDueDate(je.tasks, je.now)
        \/ DanglingEpic(je.tasks))
        => /\ je.pc = "done"
           /\ je.result.done /\ ~je.result.success
           /\ je.calls = 0

\* C39 witness: the request whose story names an epic that no task of the
\* request is, refused for its task data under a valid configuration.
C39_Witness ==
    /\ je.pc = "done"
    /\ je.action = "write"
    /\ DanglingEpic(je.tasks)
    /\ ~DuplicateTitle(je.tasks) /\ ~PastDueDate(je.tasks, je.now)
    /\ je.result.error = "Invalid task data"
    /\ je.calls = 0

\* A request with an epic later in the list, a reference with '-' or a
\* due date of a coming day passes the checks and reaches the backend.
ValidTasksAccepted ==
    /\ je.pc = "running"
    /\ je.action = "write"
    /\ je.calls = 1

-----------------------------------------------------------------------------
(* Claim C40: the sprints of writeJiraIssues *)

IssuePostedFor(title) == \E k \in 1..Len(wj.issuePosts) : wj.issuePosts[k].title = title

\* Each sprint name was posted at most once, and only with a board; an
\* issue was added only to a sprint that this run created.
SprintCallsInOrder ==
    /\ \A j, k \in 1..Len(wj.sprintPosts) : wj.sprintPosts[j] = wj.sprintPosts[k] => j = k
    /\ Len(wj.sprintPosts) > 0 => wj.board
    /\ \A name \in wj.sprintMap : InSeq(name, wj.sprintPosts)
    /\ \A a \in wj.sprintAdds : a.sprint \in wj.sprintMap

\* Task t names a sprint this run did not create: t was posted all the
\* same and, when it was created, has its warning.
SprintlessTaskWarned(t) ==
    (t.sprint # "" /\ t.sprint \notin wj.sprintMap) =>
        /\ IssuePostedFor(t.title)
        /\ MapGet(wj.issueKeyMap, t.title) # "" =>
              InSeq(Warn("sprintNotFound", t.title), wj.warnings)

\* C40: in writeJiraIssues each distinct sprint name of the request is
\* created at most once per run and only when a board was found; an issue
\* is added only to a sprint whose creation succeeded in this run; a task
\* naming a sprint that was not created is still created and gets a
\* warning.
C40_SprintsOfTheRun ==
    /\ SprintCallsInOrder
    /\ IssuePhasesOver => \A k \in 1..Len(wj.tasks) : SprintlessTaskWarned(wj.tasks[k])

\* The run has a warning that tells why sprint name is missing: no board
\* was found, or the creation of the sprint failed.
SprintMissingExplained(name) ==
    InSeq(Warn("noBoard", ""), wj.warnings) \/ InSeq(Warn("sprint", name), wj.warnings)

\* C40, amended: the sprint calls are as stated; a task other than an Epic
\* that names a sprint the run did not create is posted all the same and,
\* once created, has a warning of its own; for an Epic that names such a
\* sprint the result has only the warning about the board or about the
\* failed sprint.
C40_SprintsOfOtherIssues ==
    /\ SprintCallsInOrder
    /\ IssuePhasesOver =>
          /\ \A k \in 1..Len(NonEpicTasks(wj.tasks)) :
                SprintlessTaskWarned(NonEpicTasks(wj.tasks)[k])
          /\ \A k \in 1..Len(EpicTasks(wj.tasks)) :
                LET t == EpicTasks(wj.tasks)[k] IN
                (t.sprint # "" /\ t.sprint \notin wj.sprintMap) =>
                    /\ IssuePostedFor(t.title)
                    /\ SprintMissingExplained(t.sprint)

\* C40 witness: a board was found, the one sprint of two stories was
\* posted once and refused, and both stories were created with their
\* warnings.
C40_Witness ==
    /\ IssuePhasesOver
    /\ wj.board
    /\ wj.sprintPosts = <<"Sp">>
    /\ wj.sprintMap = {}
    /\ wj.sprintAdds = {}
    /\ MapGet(wj.issueKeyMap, "S1") # "" /\ MapGet(wj.issueKeyMap, "S2") # ""
    /\ InSeq(Warn("sprintNotFound", "S1"), wj.warnings)
    /\ InSeq(Warn("sprintNotFound", "S2"), wj.warnings)

\* A story was added to the sprint the run had created for it.
AddedToCreatedSprint ==
    /\ [title |-> "S1", sprint |-> "Sp"] \in wj.sprintAdds
    /\ "Sp" \in wj.sprintMap

=============================================================================
